---- MODULE Spec2Model ----
(***************************************************************************)
(* Model of the prime-field gadget layer (src/fields/fp/mod.rs): symbolic  *)
(* field values (AllocatedFp), the Constant/Var union (FpVar) and the      *)
(* constraint system they write into.  A state holds one constraint        *)
(* system, the field elements the circuit has allocated so far and a       *)
(* record of the last gadget call (its operands, its result and the        *)
(* constraint system it started from).                                     *)
(***************************************************************************)
EXTENDS Integers, Sequences, FiniteSets

VARIABLES cs, vals, last

vars == <<cs, vals, last>>

----------------------------------------------------------------------------
(* Bounds of the model *)

\* index into Primes of the field modulus the model is checked over
FieldIdx == 1
\* number of field elements allocated before a gadget is called
MaxVals == 2
\* longest operand slice handed to a batched gadget
MaxLen == 2
\* number of bits of a limb of the loop parameter of a curve
LimbBits == 4

Primes == <<5, 7, 11, 13>>
P == Primes[FieldIdx]
Fp == 0 .. (P - 1)

----------------------------------------------------------------------------
(* Prime-field arithmetic (F: PrimeField) *)

NoValue == -1

FAdd(a, b) == (a + b) % P
FSub(a, b) == (a + P - b) % P
FMul(a, b) == (a * b) % P
FNeg(a) == (P - a) % P
\* Field::inverse : Option<F>, None for the additive identity
FInverse(a) == IF a = 0 THEN NoValue ELSE CHOOSE b \in Fp : (a * b) % P = 1
\* Option::unwrap_or(F::ZERO)
UnwrapOrZero(o) == IF o = NoValue THEN 0 ELSE o

\* Option-lifted binary operation: (Some(a), Some(b)) => Some(op), (..) => None
Known(a) == a # NoValue

----------------------------------------------------------------------------
(* Constraint system: variables, linear combinations, constraints *)

One == [kind |-> "One", index |-> 0]
NoVariable == [kind |-> "None", index |-> 0]
Instance(i) == [kind |-> "Instance", index |-> i]
Witness(i) == [kind |-> "Witness", index |-> i]
SymbolicLc(i) == [kind |-> "SymbolicLc", index |-> i]

\* a linear combination is a sequence of <<coefficient, variable>> terms
Lc1(v) == << <<1, v>> >>
\* lc![a, b] : a + b
LcSum(a, b) == << <<1, a>>, <<1, b>> >>
\* lc_diff![a, b] : a - b
LcDiff(a, b) == << <<1, a>>, <<FNeg(1), b>> >>

EmptyCs(mode) ==
    [mode |-> mode, instance |-> <<>>, witness |-> <<>>, lcs |-> <<>>, cons |-> <<>>]

\* cs.new_lc(|| lc)
NewLc(c, lc) ==
    [cs |-> [c EXCEPT !.lcs = Append(@, lc)], variable |-> SymbolicLc(Len(c.lcs) + 1)]

\* cs.new_witness_variable(|| Ok(v)): the value is stored only when proving
NewWitnessVariable(c, v) ==
    [cs |-> [c EXCEPT !.witness = Append(@, IF c.mode = "prove" THEN v ELSE NoValue)],
     variable |-> Witness(Len(c.witness) + 1)]

\* cs.new_input_variable(|| Ok(v))
NewInputVariable(c, v) ==
    [cs |-> [c EXCEPT !.instance = Append(@, IF c.mode = "prove" THEN v ELSE NoValue)],
     variable |-> Instance(Len(c.instance) + 1)]

\* cs.enforce_r1cs_constraint(|| a, || b, || c)
EnforceR1cs(c, a, b, cc) ==
    [c EXCEPT !.cons = Append(@, [a |-> a, b |-> b, c |-> cc])]

RECURSIVE EvalLc(_, _, _)
\* value of a linear combination under the witness assignment w
EvalLc(c, w, lc) ==
    IF lc = <<>> THEN 0
    ELSE LET t == Head(lc)
             v == t[2]
             x == CASE v.kind = "One" -> 1
                    [] v.kind = "Instance" -> c.instance[v.index]
                    [] v.kind = "Witness" -> w[v.index]
                    [] v.kind = "SymbolicLc" -> EvalLc(c, w, c.lcs[v.index])
         IN FAdd(FMul(t[1], x), EvalLc(c, w, Tail(lc)))

ConstraintHolds(c, w, k) ==
    FMul(EvalLc(c, w, k.a), EvalLc(c, w, k.b)) = EvalLc(c, w, k.c)

\* satisfaction of every enforced constraint when the witnesses are w
IsSatisfiedWith(c, w) ==
    \A i \in 1 .. Len(c.cons) : ConstraintHolds(c, w, c.cons[i])

\* cs.is_satisfied()
IsSatisfied(c) == IsSatisfiedWith(c, c.witness)

\* order of Variable: One < Instance(i) < Witness(i) < SymbolicLc(i)
VarKey(v) ==
    (CASE v.kind = "One" -> 1 [] v.kind = "Instance" -> 2
       [] v.kind = "Witness" -> 3 [] OTHER -> 4) * 1000 + v.index

RECURSIVE CoeffOf(_, _)
\* sum of the coefficients of variable v in lc
CoeffOf(lc, v) ==
    IF lc = <<>> THEN 0
    ELSE FAdd(IF Head(lc)[2] = v THEN Head(lc)[1] ELSE 0, CoeffOf(Tail(lc), v))

RECURSIVE SortedVars(_)
SortedVars(S) ==
    IF S = {} THEN <<>>
    ELSE LET v == CHOOSE x \in S : \A y \in S : VarKey(x) <= VarKey(y)
         IN <<v>> \o SortedVars(S \ {v})

\* LinearCombination::compactify: sort by variable, merge duplicate variables,
\* discard zero-coefficient terms
Compactify(lc) ==
    LET vs == SortedVars({lc[i][2] : i \in 1 .. Len(lc)})
        merged == [i \in 1 .. Len(vs) |-> <<CoeffOf(lc, vs[i]), vs[i]>>]
    IN SelectSeq(merged, LAMBDA t : t[1] # 0)

----------------------------------------------------------------------------
(* Field elements *)

\* FpVar::Constant(f)
Constant(f) == [tag |-> "Constant", value |-> f, variable |-> NoVariable, cs |-> "None"]
\* FpVar::Var(AllocatedFp::new(value, variable, cs))
AllocatedFp(value, variable) == [tag |-> "Var", value |-> value, variable |-> variable, cs |-> "Cs"]
\* Option::None / no result
NoFp == [tag |-> "None", value |-> NoValue, variable |-> NoVariable, cs |-> "None"]

\* Boolean::Constant(b) / Boolean::Var: its value (0, 1 or NoValue) and its lc() view
BoolConstant(b) ==
    [tag |-> "Constant", value |-> b, lc |-> IF b = 1 THEN << <<1, One>> >> ELSE <<>>]
BoolVar(value, variable) == [tag |-> "Var", value |-> value, lc |-> << <<1, variable>> >>]
NoBool == [tag |-> "None", value |-> NoValue, lc |-> <<>>]

\* core::ops::Not for Boolean: 1 - b
BoolNot(b) ==
    CASE b.tag = "Constant" -> BoolConstant(1 - b.value)
      [] b.tag = "Var" ->
            [tag |-> "Var",
             value |-> IF Known(b.value) THEN 1 - b.value ELSE NoValue,
             lc |-> << <<1, One>> >> \o [i \in 1 .. Len(b.lc) |-> <<FNeg(b.lc[i][1]), b.lc[i][2]>>]]
      [] OTHER -> b

\* result of a gadget call: the constraint system after it, its output (a field
\* element or a boolean), its error, and the auxiliary witnesses it allocated
Ret(c, out, err) ==
    [cs |-> c, out |-> out, bout |-> NoBool, err |-> err, aux |-> <<>>, bits |-> <<>>,
     ell_coeffs |-> <<>>]
RetBool(c, bout, err, aux) ==
    [cs |-> c, out |-> NoFp, bout |-> bout, err |-> err, aux |-> aux, bits |-> <<>>,
     ell_coeffs |-> <<>>]
\* result of a gadget call that returns a vector of booleans
RetBits(c, bits, err, aux) ==
    [cs |-> c, out |-> NoFp, bout |-> NoBool, err |-> err, aux |-> aux, bits |-> bits,
     ell_coeffs |-> <<>>]
\* result of a gadget call that returns a vector of coefficient pairs
RetCoeffs(c, ell_coeffs, err, aux) ==
    [cs |-> c, out |-> NoFp, bout |-> NoBool, err |-> err, aux |-> aux, bits |-> <<>>,
     ell_coeffs |-> ell_coeffs]

\* AllocatedFp::new_variable
AllocNewVariable(c, f, mode) ==
    IF mode = "Constant"
    THEN LET r == NewLc(c, << <<f, One>> >>)
         IN Ret(r.cs, AllocatedFp(f, r.variable), "ok")
    ELSE LET r == IF mode = "Input" THEN NewInputVariable(c, f) ELSE NewWitnessVariable(c, f)
             value == IF c.mode = "prove" THEN f ELSE NoValue
         IN Ret(r.cs, AllocatedFp(value, r.variable), "ok")

\* FpVar::new_variable
FpNewVariable(c, f, mode) ==
    IF mode = "Constant" THEN Ret(c, Constant(f), "ok")
    ELSE AllocNewVariable(c, f, mode)

\* AllocatedFp::add
AllocAdd(c, self, other) ==
    LET value == IF Known(self.value) /\ Known(other.value)
                 THEN FAdd(self.value, other.value) ELSE NoValue
        r == NewLc(c, LcSum(self.variable, other.variable))
    IN Ret(r.cs, AllocatedFp(value, r.variable), "ok")

\* AllocatedFp::sub that takes an absent witness for zero
AllocSub_UnwrapOrZero(c, self, other) ==
    LET r == NewLc(c, LcDiff(self.variable, other.variable))
    IN Ret(r.cs, AllocatedFp(FSub(UnwrapOrZero(self.value), UnwrapOrZero(other.value)),
                             r.variable), "ok")

\* AllocatedFp::sub
AllocSub(c, self, other) ==
    LET value == IF Known(self.value) /\ Known(other.value)
                 THEN FSub(self.value, other.value) ELSE NoValue
        r == NewLc(c, LcDiff(self.variable, other.variable))
    IN Ret(r.cs, AllocatedFp(value, r.variable), "ok")

\* AllocatedFp::mul
AllocMul(c, self, other) ==
    IF c.mode = "prove" /\ ~(Known(self.value) /\ Known(other.value))
    THEN Ret(c, NoFp, "panic")
    ELSE LET value == IF c.mode = "prove" THEN FMul(self.value, other.value) ELSE NoValue
             r == NewWitnessVariable(c, value)
             c2 == EnforceR1cs(r.cs, Lc1(self.variable), Lc1(other.variable), Lc1(r.variable))
         IN Ret(c2, AllocatedFp(value, r.variable), "ok")

\* AllocatedFp::add_constant
AllocAddConstant(c, self, other) ==
    IF other = 0 THEN Ret(c, self, "ok")
    ELSE LET value == IF Known(self.value) THEN FAdd(self.value, other) ELSE NoValue
             r == NewLc(c, << <<1, self.variable>>, <<other, One>> >>)
         IN Ret(r.cs, AllocatedFp(value, r.variable), "ok")

\* AllocatedFp::sub_constant
AllocSubConstant(c, self, other) == AllocAddConstant(c, self, FNeg(other))

\* AllocatedFp::mul_constant
AllocMulConstant(c, self, other) ==
    IF other = 1 THEN Ret(c, self, "ok")
    ELSE LET value == IF Known(self.value) THEN FMul(self.value, other) ELSE NoValue
             r == NewLc(c, << <<other, self.variable>> >>)
         IN Ret(r.cs, AllocatedFp(value, r.variable), "ok")

\* AllocatedFp::negate overwriting the operand where it was registered
AllocNegate_Overwrite(c, self) ==
    LET value == IF Known(self.value) THEN FNeg(self.value) ELSE NoValue
        v == self.variable
        lcs == IF v.kind = "SymbolicLc"
               THEN [c.lcs EXCEPT ![v.index] = [k \in 1 .. Len(@) |-> <<FNeg(@[k][1]), @[k][2]>>]]
               ELSE c.lcs
        witness == IF v.kind = "Witness" /\ Known(c.witness[v.index])
                   THEN [c.witness EXCEPT ![v.index] = FNeg(@)] ELSE c.witness
    IN Ret([c EXCEPT !.lcs = lcs, !.witness = witness], AllocatedFp(value, v), "ok")

\* AllocatedFp::negate (negate_in_place on a clone)
AllocNegate(c, self) ==
    LET value == IF Known(self.value) THEN FNeg(self.value) ELSE NoValue
        r == NewLc(c, << <<FNeg(1), self.variable>> >>)
    IN Ret(r.cs, AllocatedFp(value, r.variable), "ok")

\* AllocatedFp::square
AllocSquare(c, self) == AllocMul(c, self, self)

\* AllocatedFp::inverse enforcing self * inverse = 0 (an empty right-hand side)
AllocInverse_ZeroRhs(c, self) ==
    IF c.mode = "prove" /\ ~Known(self.value)
    THEN Ret(c, NoFp, "AssignmentMissing")
    ELSE LET value == IF c.mode = "prove" THEN UnwrapOrZero(FInverse(self.value)) ELSE NoValue
             r == NewWitnessVariable(c, value)
             c2 == EnforceR1cs(r.cs, Lc1(self.variable), Lc1(r.variable), <<>>)
         IN Ret(c2, AllocatedFp(value, r.variable), "ok")

\* AllocatedFp::inverse
AllocInverse(c, self) ==
    IF c.mode = "prove" /\ ~Known(self.value)
    THEN Ret(c, NoFp, "AssignmentMissing")
    ELSE LET value == IF c.mode = "prove" THEN UnwrapOrZero(FInverse(self.value)) ELSE NoValue
             r == NewWitnessVariable(c, value)
             c2 == EnforceR1cs(r.cs, Lc1(self.variable), Lc1(r.variable), Lc1(One))
         IN Ret(c2, AllocatedFp(value, r.variable), "ok")

\* AllocatedFp::is_neq without its second constraint
AllocIsNeq_OneConstraint(c, self, other) ==
    IF c.mode = "prove" /\ ~(Known(self.value) /\ Known(other.value))
    THEN RetBool(c, NoBool, "AssignmentMissing", <<>>)
    ELSE LET proving == c.mode = "prove"
             neq == IF ~proving THEN NoValue
                    ELSE IF self.value # other.value THEN 1 ELSE 0
             r1 == NewWitnessVariable(c, neq)
             is_not_equal == BoolVar(neq, r1.variable)
             mval == IF ~proving THEN NoValue
                     ELSE IF self.value # other.value
                          THEN UnwrapOrZero(FInverse(FSub(self.value, other.value)))
                          ELSE 1
             r2 == NewWitnessVariable(r1.cs, mval)
             r3 == NewLc(r2.cs, LcDiff(self.variable, other.variable))
             c1 == EnforceR1cs(r3.cs, Lc1(r3.variable), Lc1(r2.variable), is_not_equal.lc)
         IN RetBool(c1, is_not_equal, "ok", <<r1.variable.index, r2.variable.index>>)

\* AllocatedFp::is_neq
AllocIsNeq(c, self, other) ==
    IF c.mode = "prove" /\ ~(Known(self.value) /\ Known(other.value))
    THEN RetBool(c, NoBool, "AssignmentMissing", <<>>)
    ELSE LET proving == c.mode = "prove"
             neq == IF ~proving THEN NoValue
                    ELSE IF self.value # other.value THEN 1 ELSE 0
             r1 == NewWitnessVariable(c, neq)
             is_not_equal == BoolVar(neq, r1.variable)
             mval == IF ~proving THEN NoValue
                     ELSE IF self.value # other.value
                          THEN UnwrapOrZero(FInverse(FSub(self.value, other.value)))
                          ELSE 1
             r2 == NewWitnessVariable(r1.cs, mval)
             multiplier == r2.variable
             r3 == NewLc(r2.cs, LcDiff(self.variable, other.variable))
             difference == r3.variable
             c1 == EnforceR1cs(r3.cs, Lc1(difference), Lc1(multiplier), is_not_equal.lc)
             is_equal == BoolNot(is_not_equal)
             c2 == EnforceR1cs(c1, Lc1(difference), is_equal.lc, <<>>)
         IN RetBool(c2, is_not_equal, "ok", <<r1.variable.index, multiplier.index>>)

\* AllocatedFp::is_eq without the negation of is_neq
AllocIsEq_NoNot(c, self, other) == AllocIsNeq(c, self, other)

\* AllocatedFp::is_eq
AllocIsEq(c, self, other) ==
    LET r == AllocIsNeq(c, self, other)
    IN RetBool(r.cs, BoolNot(r.bout), r.err, r.aux)

\* ConstraintSystemRef::or over the operands' cs handles
CsOr(a, b) == IF a = "None" THEN b ELSE a

RECURSIVE CsOrAll(_)
CsOrAll(s) == IF s = <<>> THEN "None" ELSE CsOr(Head(s).cs, CsOrAll(Tail(s)))

\* value accumulated by the loops of add_many / linear_combination: the sum of
\* coeff * value over the operands that have a value
RECURSIVE DotKnown(_, _)
DotKnown(coeffs, s) ==
    IF s = <<>> THEN 0
    ELSE LET rest == DotKnown(Tail(coeffs), Tail(s))
         IN IF Known(Head(s).value) THEN FAdd(FMul(Head(coeffs), Head(s).value), rest) ELSE rest

AllKnown(s) == \A i \in 1 .. Len(s) : Known(s[i].value)

Ones(n) == [i \in 1 .. n |-> 1]

RECURSIVE AllocAddMany_Pairwise(_, _)
\* AllocatedFp::add_many folding the operands with pairwise add
AllocAddMany_Pairwise(c, iter) ==
    IF Len(iter) = 0 THEN Ret(c, NoFp, "ok")
    ELSE IF Len(iter) = 1 THEN Ret(c, iter[1], "ok")
    ELSE LET r == AllocAdd(c, iter[1], iter[2])
         IN AllocAddMany_Pairwise(r.cs, <<r.out>> \o SubSeq(iter, 3, Len(iter)))

\* AllocatedFp::add_many
AllocAddMany(c, iter) ==
    IF Len(iter) = 0 THEN Ret(c, NoFp, "ok")
    ELSE IF CsOrAll(iter) = "None" THEN Ret(c, NoFp, "panic")
    ELSE LET value == DotKnown(Ones(Len(iter)), iter)
             lc == Compactify([i \in 1 .. Len(iter) |-> <<1, iter[i].variable>>])
             r == NewLc(c, lc)
         IN Ret(r.cs, AllocatedFp(IF AllKnown(iter) THEN value ELSE NoValue, r.variable), "ok")

\* state of the loop of AllocatedFp::inner_product
IpState(c, csref, value, has_value, new_lc, stop) ==
    [cs |-> c, csref |-> csref, value |-> value, has_value |-> has_value,
     new_lc |-> new_lc, stop |-> stop]

\* one iteration of the loop of AllocatedFp::inner_product on the pair (v1, v2)
IpStep(st, v1, v2) ==
    LET csref == CsOr(CsOr(st.csref, v1.cs), v2.cs)
        both == Known(v1.value) /\ Known(v2.value)
        value == IF both THEN FAdd(st.value, FMul(v1.value, v2.value)) ELSE st.value
        has_value == st.has_value /\ both
        \* if v1.cs.is_none() && v2.cs.is_none()
        stop1 == v1.cs = "None" /\ v2.cs = "None" /\ ~both
        lc1 == IF v1.cs = "None" /\ v2.cs = "None" /\ both
               THEN Append(st.new_lc, <<FMul(v1.value, v2.value), One>>)
               ELSE st.new_lc
        \* if v1.cs.is_none() .. else if v2.cs.is_none() .. else
        m == AllocMul(st.cs, v1, v2)
    IN  IF stop1 THEN IpState(st.cs, csref, value, has_value, st.new_lc, "none_returned")
        ELSE IF v1.cs = "None"
        THEN IF ~Known(v1.value)
             THEN IpState(st.cs, csref, value, has_value, lc1, "none_returned")
             ELSE IpState(st.cs, csref, value, has_value,
                          Append(lc1, <<v1.value, v2.variable>>), "run")
        ELSE IF v2.cs = "None"
        THEN IF ~Known(v2.value)
             THEN IpState(st.cs, csref, value, has_value, lc1, "none_returned")
             ELSE IpState(st.cs, csref, value, has_value,
                          Append(lc1, <<v2.value, v1.variable>>), "run")
        ELSE IF m.err # "ok"
             THEN IpState(st.cs, csref, value, has_value, lc1, "panic")
             ELSE IpState(m.cs, csref, value, has_value,
                          Append(lc1, <<1, m.out.variable>>), "run")

RECURSIVE IpLoop_Zip(_, _, _)
\* for (v1, v2) in zip(this, other): the loop ends when either side ends
IpLoop_Zip(st, this, other) ==
    IF st.stop # "run" THEN st
    ELSE IF this = <<>> \/ other = <<>> THEN st
    ELSE IpLoop_Zip(IpStep(st, Head(this), Head(other)), Tail(this), Tail(other))

RECURSIVE IpLoop(_, _, _)
\* for (v1, v2) in zip_eq(this, other): zip_eq panics when one side ends first
IpLoop(st, this, other) ==
    IF st.stop # "run" THEN st
    ELSE IF this = <<>> /\ other = <<>> THEN st
    ELSE IF this = <<>> \/ other = <<>> THEN [st EXCEPT !.stop = "panic"]
    ELSE IpLoop(IpStep(st, Head(this), Head(other)), Tail(this), Tail(other))

\* AllocatedFp::inner_product
AllocInnerProduct(c, this, other) ==
    LET st == IpLoop(IpState(c, "None", 0, TRUE, <<>>, "run"), this, other)
    IN  IF st.stop = "panic" THEN Ret(st.cs, NoFp, "panic")
        ELSE IF st.stop = "none_returned" THEN Ret(st.cs, NoFp, "ok")
        ELSE IF Len(this) = 0 THEN Ret(st.cs, NoFp, "ok")
        ELSE IF st.csref = "None" THEN Ret(st.cs, NoFp, "panic")
        ELSE LET r == NewLc(st.cs, Compactify(st.new_lc))
             IN Ret(r.cs, AllocatedFp(IF st.has_value THEN st.value ELSE NoValue, r.variable), "ok")

\* AllocatedFp::linear_combination ignoring its coefficients
AllocLinearCombination_NoCoeffs(c, this, other) == AllocAddMany(c, other)

RECURSIVE AllocConstants(_, _)
\* every coefficient allocated as a constant variable
AllocConstants(c, coeffs) ==
    IF coeffs = <<>> THEN [cs |-> c, outs |-> <<>>]
    ELSE LET k == AllocNewVariable(c, Head(coeffs), "Constant")
             rest == AllocConstants(k.cs, Tail(coeffs))
         IN [cs |-> rest.cs, outs |-> <<k.out>> \o rest.outs]

\* AllocatedFp::linear_combination multiplying each operand by its coefficient
\* through a multiplication gate
AllocLinearCombination_Costed(c, this, other) ==
    LET ks == AllocConstants(c, this)
    IN AllocInnerProduct(ks.cs, ks.outs, other)

\* AllocatedFp::linear_combination
AllocLinearCombination(c, this, other) ==
    IF Len(this) # Len(other) THEN Ret(c, NoFp, "panic")
    ELSE IF Len(other) = 0 THEN Ret(c, NoFp, "ok")
    ELSE IF CsOrAll(other) = "None" THEN Ret(c, NoFp, "panic")
    ELSE LET value == DotKnown(this, other)
             lc == Compactify([i \in 1 .. Len(other) |-> <<this[i], other[i].variable>>])
             r == NewLc(c, lc)
         IN Ret(r.cs, AllocatedFp(IF AllKnown(other) THEN value ELSE NoValue, r.variable), "ok")

----------------------------------------------------------------------------
(* FpVar operators *)

\* impl_ops! Add
FpAdd(c, this, other) ==
    CASE this.tag = "Constant" /\ other.tag = "Constant" ->
            Ret(c, Constant(FAdd(this.value, other.value)), "ok")
      [] this.tag = "Constant" /\ other.tag = "Var" -> AllocAddConstant(c, other, this.value)
      [] this.tag = "Var" /\ other.tag = "Constant" -> AllocAddConstant(c, this, other.value)
      [] OTHER -> AllocAdd(c, this, other)

\* impl_ops! Sub
FpSub(c, this, other) ==
    CASE this.tag = "Constant" /\ other.tag = "Constant" ->
            Ret(c, Constant(FSub(this.value, other.value)), "ok")
      [] this.tag = "Var" /\ other.tag = "Constant" -> AllocSubConstant(c, this, other.value)
      [] this.tag = "Constant" /\ other.tag = "Var" ->
            LET r == AllocSubConstant(c, other, this.value)
            IN AllocNegate(r.cs, r.out)
      [] OTHER -> AllocSub(c, this, other)

\* impl_ops! Mul paying a multiplication gate for a Constant operand
FpMul_Costed(c, this, other) ==
    CASE this.tag = "Constant" /\ other.tag = "Constant" ->
            Ret(c, Constant(FMul(this.value, other.value)), "ok")
      [] this.tag = "Constant" /\ other.tag = "Var" ->
            LET k == AllocNewVariable(c, this.value, "Constant")
            IN AllocMul(k.cs, k.out, other)
      [] this.tag = "Var" /\ other.tag = "Constant" ->
            LET k == AllocNewVariable(c, other.value, "Constant")
            IN AllocMul(k.cs, this, k.out)
      [] OTHER -> AllocMul(c, this, other)

\* impl_ops! Mul
FpMul(c, this, other) ==
    CASE this.tag = "Constant" /\ other.tag = "Constant" ->
            Ret(c, Constant(FMul(this.value, other.value)), "ok")
      [] this.tag = "Constant" /\ other.tag = "Var" -> AllocMulConstant(c, other, this.value)
      [] this.tag = "Var" /\ other.tag = "Constant" -> AllocMulConstant(c, this, other.value)
      [] OTHER -> AllocMul(c, this, other)

\* FpVar::square
FpSquare(c, self) ==
    IF self.tag = "Constant" THEN Ret(c, Constant(FMul(self.value, self.value)), "ok")
    ELSE AllocSquare(c, self)

\* FpVar::inverse using unwrap_or(zero) for a Constant, as AllocatedFp::inverse does
FpInverse_UnwrapOrZero(c, self) ==
    IF self.tag = "Var" THEN AllocInverse(c, self)
    ELSE Ret(c, Constant(UnwrapOrZero(FInverse(self.value))), "ok")

\* FpVar::inverse
FpInverse(c, self) ==
    IF self.tag = "Var" THEN AllocInverse(c, self)
    ELSE IF Known(FInverse(self.value))
         THEN Ret(c, Constant(FInverse(self.value)), "ok")
         ELSE Ret(c, NoFp, "AssignmentMissing")

\* EqGadget::is_eq for FpVar materializing two Constants instead of folding them
FpIsEq_NoFold(c, self, other) ==
    CASE self.tag = "Constant" /\ other.tag = "Constant" ->
            LET k1 == AllocNewVariable(c, self.value, "Constant")
                k2 == AllocNewVariable(k1.cs, other.value, "Constant")
            IN AllocIsEq(k2.cs, k1.out, k2.out)
      [] self.tag = "Constant" /\ other.tag = "Var" ->
            LET k == AllocNewVariable(c, self.value, "Constant")
            IN AllocIsEq(k.cs, k.out, other)
      [] self.tag = "Var" /\ other.tag = "Constant" ->
            LET k == AllocNewVariable(c, other.value, "Constant")
            IN AllocIsEq(k.cs, k.out, self)
      [] OTHER -> AllocIsEq(c, self, other)

\* EqGadget::is_eq for FpVar
FpIsEq(c, self, other) ==
    CASE self.tag = "Constant" /\ other.tag = "Constant" ->
            RetBool(c, BoolConstant(IF self.value = other.value THEN 1 ELSE 0), "ok", <<>>)
      [] self.tag = "Constant" /\ other.tag = "Var" ->
            LET k == AllocNewVariable(c, self.value, "Constant")
            IN AllocIsEq(k.cs, k.out, other)
      [] self.tag = "Var" /\ other.tag = "Constant" ->
            LET k == AllocNewVariable(c, other.value, "Constant")
            IN AllocIsEq(k.cs, k.out, self)
      [] OTHER -> AllocIsEq(c, self, other)

\* EqGadget::is_neq (provided method): !is_eq
FpIsNeq(c, self, other) ==
    LET r == FpIsEq(c, self, other)
    IN RetBool(r.cs, BoolNot(r.bout), r.err, r.aux)

\* EqGadget::conditional_enforce_equal for AllocatedFp
AllocConditionalEnforceEqual(c, self, other, should_enforce) ==
    Ret(EnforceR1cs(c, LcDiff(self.variable, other.variable), should_enforce.lc, <<>>),
        NoFp, "ok")

\* EqGadget::conditional_enforce_equal for FpVar
FpConditionalEnforceEqual(c, self, other, should_enforce) ==
    CASE self.tag = "Constant" /\ other.tag = "Constant" -> Ret(c, NoFp, "ok")
      [] self.tag = "Constant" /\ other.tag = "Var" ->
            LET k == AllocNewVariable(c, self.value, "Constant")
            IN AllocConditionalEnforceEqual(k.cs, k.out, other, should_enforce)
      [] self.tag = "Var" /\ other.tag = "Constant" ->
            LET k == AllocNewVariable(c, other.value, "Constant")
            IN AllocConditionalEnforceEqual(k.cs, k.out, self, should_enforce)
      [] OTHER -> AllocConditionalEnforceEqual(c, self, other, should_enforce)

\* EqGadget::enforce_equal (provided method)
FpEnforceEqual(c, self, other) == FpConditionalEnforceEqual(c, self, other, BoolConstant(1))

RECURSIVE SumValues(_)
\* sum_constants: the field sum of the values of a sequence of constants
SumValues(s) == IF s = <<>> THEN 0 ELSE FAdd(Head(s).value, SumValues(Tail(s)))

IsConstant(x) == x.tag = "Constant"
IsVar(x) == x.tag = "Var"

\* FpVar::inner_product
FpInnerProduct(c, this, other) ==
    IF Len(this) # Len(other) THEN Ret(c, NoFp, "Unsatisfiable")
    ELSE LET n == Len(this)
             ix == [i \in 1 .. n |-> i]
             cc == SelectSeq(ix, LAMBDA i : IsConstant(this[i]) /\ IsConstant(other[i]))
             cv == SelectSeq(ix, LAMBDA i : IsConstant(this[i]) # IsConstant(other[i]))
             vv == SelectSeq(ix, LAMBDA i : IsVar(this[i]) /\ IsVar(other[i]))
             sum_constants ==
                 Constant(SumValues([k \in 1 .. Len(cc) |->
                     Constant(FMul(this[cc[k]].value, other[cc[k]].value))]))
             lc_vars == [k \in 1 .. Len(cv) |->
                            IF IsVar(this[cv[k]]) THEN this[cv[k]] ELSE other[cv[k]]]
             lc_coeffs == [k \in 1 .. Len(cv) |->
                            IF IsVar(this[cv[k]]) THEN other[cv[k]].value ELSE this[cv[k]].value]
             vars_left == [k \in 1 .. Len(vv) |-> this[vv[k]]]
             vars_right == [k \in 1 .. Len(vv) |-> other[vv[k]]]
             sum_lc == AllocLinearCombination(c, lc_coeffs, lc_vars)
             sum_variables == AllocInnerProduct(sum_lc.cs, vars_left, vars_right)
             c2 == sum_variables.cs
         IN  IF sum_lc.err # "ok" THEN sum_lc
             ELSE IF sum_variables.err # "ok" THEN sum_variables
             ELSE IF sum_lc.out # NoFp /\ sum_variables.out # NoFp
                  THEN LET ab == FpAdd(c2, sum_lc.out, sum_variables.out)
                       IN FpAdd(ab.cs, ab.out, sum_constants)
             ELSE IF sum_lc.out # NoFp THEN FpAdd(c2, sum_lc.out, sum_constants)
             ELSE IF sum_variables.out # NoFp THEN FpAdd(c2, sum_variables.out, sum_constants)
             ELSE Ret(c2, sum_constants, "ok")

\* Sum for FpVar forgetting the constants once a variable is present
FpSum_DropConstants(c, iter) ==
    LET sum_constants == SumValues(SelectSeq(iter, IsConstant))
        variables == SelectSeq(iter, IsVar)
    IN  IF variables = <<>> THEN Ret(c, Constant(sum_constants), "ok")
        ELSE AllocAddMany(c, variables)

\* Sum<&FpVar> for FpVar, Sum<FpVar> for FpVar
FpSum(c, iter) ==
    LET sum_constants == SumValues(SelectSeq(iter, IsConstant))
        variables == SelectSeq(iter, IsVar)
        sum_vars == AllocAddMany(c, variables)
    IN  IF variables = <<>> THEN Ret(c, Constant(sum_constants), "ok")
        ELSE IF sum_vars.err # "ok" THEN sum_vars
        ELSE IF sum_vars.out = NoFp THEN Ret(sum_vars.cs, Constant(sum_constants), "ok")
        ELSE FpAdd(sum_vars.cs, sum_vars.out, Constant(sum_constants))

----------------------------------------------------------------------------
(* Bit decomposition *)

RECURSIVE BitLen(_)
\* number of bits of n, leading zeros excluded
BitLen(n) == IF n = 0 THEN 0 ELSE 1 + BitLen(n \div 2)

\* F::MODULUS_BIT_SIZE
ModulusBitSize == BitLen(P)

RECURSIVE Pow2(_)
Pow2(i) == IF i = 0 THEN 1 ELSE 2 * Pow2(i - 1)

\* BigInteger::get_bit(i)
GetBit(v, i) == (v \div Pow2(i)) % 2

Reverse(s) == [k \in 1 .. Len(s) |-> s[Len(s) + 1 - k]]

\* BitIteratorBE over the value, zipped with the bits of the characteristic and
\* with the leading zero bits of the characteristic skipped
BitsBE(v) == [k \in 1 .. ModulusBitSize |-> GetBit(v, ModulusBitSize - k)]

\* the bit values without the conversion to little-endian
ValueBits_NoReverse(value) ==
    IF Known(value) THEN BitsBE(value) ELSE [k \in 1 .. ModulusBitSize |-> NoValue]

\* the bit values handed to the bit witnesses, little-endian
ValueBits(value) ==
    IF Known(value) THEN Reverse(BitsBE(value)) ELSE [k \in 1 .. ModulusBitSize |-> NoValue]

\* Boolean::new_witness: one witness and the booleanity constraint (1 - a) * a = 0
BoolNewWitness(c, b) ==
    LET r == NewWitnessVariable(c, b)
        v == r.variable
    IN [cs |-> EnforceR1cs(r.cs, LcDiff(One, v), Lc1(v), <<>>),
        b |-> BoolVar(IF c.mode = "prove" THEN b ELSE NoValue, v)]

RECURSIVE AllocBits(_, _)
\* one boolean witness per bit value, in order
AllocBits(c, vs) ==
    IF vs = <<>> THEN [cs |-> c, bits |-> <<>>]
    ELSE LET r == BoolNewWitness(c, Head(vs))
             rest == AllocBits(r.cs, Tail(vs))
         IN [cs |-> rest.cs, bits |-> <<r.b>> \o rest.bits]

\* Boolean::variable() of an allocated boolean
BoolVariable(b) == b.lc[1][2]

RECURSIVE Coeff(_)
\* the coefficient of bit i: one doubled i times in the field
Coeff(i) == IF i = 0 THEN 1 ELSE FAdd(Coeff(i - 1), Coeff(i - 1))

\* sum of 2^i * bit_i - self, compactified
BitsLc(bits, self) ==
    Compactify([i \in 1 .. Len(bits) |-> <<Coeff(i - 1), BoolVariable(bits[i])>>]
               \o << <<FNeg(1), self.variable>> >>)

\* AllocatedFp::to_non_unique_bits_le
AllocToNonUniqueBitsLe(c, self) ==
    IF c.mode = "prove" /\ ~Known(self.value)
    THEN RetBits(c, <<>>, "AssignmentMissing", <<>>)
    ELSE LET a == AllocBits(c, ValueBits(self.value))
             lc == BitsLc(a.bits, self)
         IN RetBits(EnforceR1cs(a.cs, <<>>, <<>>, lc), a.bits, "ok",
                    [k \in 1 .. Len(a.bits) |-> BoolVariable(a.bits[k]).index])

\* Boolean AND: a constant operand folds, two variables cost one witness and
\* the constraint a * b = result
BoolAnd(c, a, b) ==
    CASE a.tag = "Constant" -> [cs |-> c, b |-> IF a.value = 1 THEN b ELSE a]
      [] b.tag = "Constant" -> [cs |-> c, b |-> IF b.value = 1 THEN a ELSE b]
      [] OTHER ->
            LET v == IF Known(a.value) /\ Known(b.value) THEN a.value * b.value ELSE NoValue
                r == NewWitnessVariable(c, v)
            IN [cs |-> EnforceR1cs(r.cs, a.lc, b.lc, Lc1(r.variable)),
                b |-> BoolVar(IF c.mode = "prove" THEN v ELSE NoValue, r.variable)]

RECURSIVE KaryAnd(_, _)
\* Boolean::kary_and of a non-empty slice
KaryAnd(c, bits) ==
    IF Len(bits) = 1 THEN [cs |-> c, b |-> bits[1]]
    ELSE LET r == BoolAnd(c, bits[1], bits[2])
         IN KaryAnd(r.cs, <<r.b>> \o SubSeq(bits, 3, Len(bits)))

\* Boolean::enforce_kary_nand: the conjunction of the bits is false
EnforceKaryNand(c, bits) ==
    LET r == KaryAnd(c, bits)
    IN IF r.b.tag = "Constant"
       THEN [cs |-> r.cs, err |-> IF r.b.value = 0 THEN "ok" ELSE "AssignmentMissing"]
       ELSE [cs |-> EnforceR1cs(r.cs, r.b.lc, Lc1(One), <<>>), err |-> "ok"]

\* one step of the comparison with the bits of `element`, big-endian: a is the
\* bit of the decomposition and b the bit of the element at the same position
LeStep(st, a, b) ==
    IF b = 1 THEN [st EXCEPT !.current_run = Append(@, a)]
    ELSE LET s1 == IF st.current_run # <<>>
                   THEN LET r == KaryAnd(st.cs, Append(st.current_run, st.last_run))
                        IN [st EXCEPT !.cs = r.cs, !.last_run = r.b, !.current_run = <<>>]
                   ELSE st
             e == EnforceKaryNand(s1.cs, <<s1.last_run, a>>)
         IN [s1 EXCEPT !.cs = e.cs, !.err = IF s1.err = "ok" THEN e.err ELSE s1.err]

RECURSIVE LeLoop(_, _, _, _)
LeLoop(st, bits, element, k) ==
    IF k = 0 THEN st
    ELSE LeLoop(LeStep(st, bits[k], GetBit(element, k - 1)), bits, element, k - 1)

\* Boolean::enforce_in_field_le: the bits, read as an integer, are at most
\* characteristic - 1
EnforceInFieldLe(c, bits) ==
    LeLoop([cs |-> c, last_run |-> BoolConstant(1), current_run |-> <<>>, err |-> "ok"],
           bits, P - 1, Len(bits))

\* AllocatedFp::to_bits_le without the in-field assertion
AllocToBitsLe_NonUnique(c, self) == AllocToNonUniqueBitsLe(c, self)

\* AllocatedFp::to_bits_le
AllocToBitsLe(c, self) ==
    LET r == AllocToNonUniqueBitsLe(c, self)
    IN IF r.err # "ok" THEN r
       ELSE LET e == EnforceInFieldLe(r.cs, r.bits)
            IN RetBits(e.cs, r.bits, e.err, r.aux)

\* the bits of a constant: BitIteratorLE limited to MODULUS_BIT_SIZE bits
ConstantBits(f) == [k \in 1 .. ModulusBitSize |-> BoolConstant(GetBit(f, k - 1))]

\* FpVar::to_non_unique_bits_le that asserts canonicity on variables
FpToNonUniqueBitsLe_Unique(c, self) ==
    IF self.tag = "Constant" THEN RetBits(c, ConstantBits(self.value), "ok", <<>>)
    ELSE AllocToBitsLe(c, self)

\* FpVar::to_non_unique_bits_le
FpToNonUniqueBitsLe(c, self) ==
    IF self.tag = "Constant" THEN RetBits(c, ConstantBits(self.value), "ok", <<>>)
    ELSE AllocToNonUniqueBitsLe(c, self)

\* FpVar::to_bits_le
FpToBitsLe(c, self) ==
    IF self.tag = "Constant" THEN FpToNonUniqueBitsLe(c, self)
    ELSE AllocToBitsLe(c, self)

----------------------------------------------------------------------------
(* Pairing precomputation for BLS12 curves. The coordinates of a G2 point are
   elements of the quadratic extension field; the precomputation uses them only
   through field operations, modelled here by the FpVar operations. *)

TwistTypes == {"M", "D"}

\* the loop parameters P::X that fit one limb
XValues == 1 .. (Pow2(LimbBits) - 1)

\* BitIteratorBE::new(x): every bit of the limb, most significant first,
\* leading zeros included
BitIteratorBE(x) == [k \in 1 .. LimbBits |-> GetBit(x, LimbBits - k)]

\* AllocatedFp::double
AllocDouble(c, self) ==
    LET value == IF Known(self.value) THEN FAdd(self.value, self.value) ELSE NoValue
        r == NewLc(c, << <<FAdd(1, 1), self.variable>> >>)
    IN Ret(r.cs, AllocatedFp(value, r.variable), "ok")

\* FieldVar::double for FpVar
FpDouble(c, self) ==
    IF self.tag = "Constant" THEN Ret(c, Constant(FAdd(self.value, self.value)), "ok")
    ELSE AllocDouble(c, self)

\* FieldVar::negate for FpVar
FpNegate(c, self) ==
    IF self.tag = "Constant" THEN Ret(c, Constant(FNeg(self.value)), "ok")
    ELSE AllocNegate(c, self)

\* FieldVar::frobenius_map for FpVar: a no-op for prime fields
FpFrobeniusMap(c, self, power) == Ret(c, self, "ok")

\* Boolean::new_variable
BoolNewVariable(c, b, mode) ==
    CASE mode = "Constant" -> [cs |-> c, b |-> BoolConstant(b)]
      [] mode = "Input" ->
            LET r == NewInputVariable(c, b)
                v == r.variable
            IN [cs |-> EnforceR1cs(r.cs, LcDiff(One, v), Lc1(v), <<>>),
                b |-> BoolVar(IF c.mode = "prove" THEN b ELSE NoValue, v)]
      [] OTHER -> BoolNewWitness(c, b)

\* EqGadget::enforce_not_equal for Boolean: a + b = 1
BoolEnforceNotEqual(c, a, b) == EnforceR1cs(c, a.lc \o b.lc, Lc1(One), Lc1(One))

\* the names of the values G2PreparedVar::double and ::add compute; t holds
\* an unnamed intermediate value
G2Names == {"r.x", "r.y", "q.x", "q.y", "a", "b", "b_tmp", "c", "d", "x3", "e",
            "c_x3", "y3", "f", "g", "t"}

\* the state of the scan: the constraint system, the named values (the
\* accumulator r and the point q among them), the coefficients pushed so far
\* and, for each of them, the step that pushed it and the position of its bit
G2State(c, q, ell_coeffs, steps, err) ==
    [cs |-> c,
     v |-> [n \in G2Names |-> IF n \in {"r.x", "q.x"} THEN q.x
                              ELSE IF n \in {"r.y", "q.y"} THEN q.y ELSE NoFp],
     ell_coeffs |-> ell_coeffs, steps |-> steps, err |-> err]

\* the state after a let binding of the result r of an operation
G2Step(st, dst, r) ==
    [st EXCEPT !.cs = r.cs, !.v = [@ EXCEPT ![dst] = r.out], !.err = r.err]

\* the bindings of a step with `double` leaving its operand as it is
G2Let_NoDouble(st, dst, op, x, y) ==
    IF st.err # "ok" THEN st
    ELSE G2Step(st, dst,
                CASE op = "inverse" -> FpInverse(st.cs, st.v[x])
                  [] op = "square" -> FpSquare(st.cs, st.v[x])
                  [] op = "double" -> Ret(st.cs, st.v[x], "ok")
                  [] op = "negate" -> FpNegate(st.cs, st.v[x])
                  [] op = "mul" -> FpMul(st.cs, st.v[x], st.v[y])
                  [] op = "mul_constant" -> FpMul(st.cs, st.v[x], Constant(y))
                  [] op = "add" -> FpAdd(st.cs, st.v[x], st.v[y])
                  [] op = "sub" -> FpSub(st.cs, st.v[x], st.v[y])
                  [] OTHER -> Ret(st.cs, st.v[x], "ok"))

\* let dst = op(x, y)?; nothing happens after an error
G2Let(st, dst, op, x, y) ==
    IF st.err # "ok" THEN st
    ELSE G2Step(st, dst,
                CASE op = "inverse" -> FpInverse(st.cs, st.v[x])
                  [] op = "square" -> FpSquare(st.cs, st.v[x])
                  [] op = "double" -> FpDouble(st.cs, st.v[x])
                  [] op = "negate" -> FpNegate(st.cs, st.v[x])
                  [] op = "mul" -> FpMul(st.cs, st.v[x], st.v[y])
                  [] op = "mul_constant" -> FpMul(st.cs, st.v[x], Constant(y))
                  [] op = "add" -> FpAdd(st.cs, st.v[x], st.v[y])
                  [] op = "sub" -> FpSub(st.cs, st.v[x], st.v[y])
                  [] OTHER -> Ret(st.cs, st.v[x], "ok"))

\* a push that returns Ok((x, y)) whatever the twist type is
G2Push_NoTwist(st, x, y, twist, kind, k) ==
    IF st.err # "ok" THEN st
    ELSE [st EXCEPT !.ell_coeffs = Append(@, <<st.v[x], st.v[y]>>),
                    !.steps = Append(@, [kind |-> kind, bit |-> k,
                                         r |-> <<st.v["r.x"], st.v["r.y"]>>])]

\* Ok((x, y)) for twist type M and Ok((y, x)) for twist type D, pushed onto
\* ell_coeffs by the caller; the step is recorded with the accumulator *r
\* it leaves behind
G2Push(st, x, y, twist, kind, k) ==
    IF st.err # "ok" THEN st
    ELSE [st EXCEPT !.ell_coeffs = Append(@, IF twist = "M" THEN <<st.v[x], st.v[y]>>
                                             ELSE <<st.v[y], st.v[x]>>),
                    !.steps = Append(@, [kind |-> kind, bit |-> k,
                                         r |-> <<st.v["r.x"], st.v["r.y"]>>])]

\* G2PreparedVar::double
G2Double(st, two_inv, twist, k) ==
    LET s1 == G2Let(st, "a", "inverse", "r.y", "")
        s2 == G2Let(s1, "b", "square", "r.x", "")
        s3 == G2Let(s2, "b_tmp", "clone", "b", "")
        s4 == G2Let(s3, "b", "mul_constant", "b", two_inv)
        s5 == G2Let(s4, "b", "add", "b", "b_tmp")
        s6 == G2Let(s5, "c", "mul", "a", "b")
        s7 == G2Let(s6, "d", "double", "r.x", "")
        s8 == G2Let(s7, "t", "square", "c", "")
        s9 == G2Let(s8, "x3", "sub", "t", "d")
        s10 == G2Let(s9, "t", "mul", "c", "r.x")
        s11 == G2Let(s10, "e", "sub", "t", "r.y")
        s12 == G2Let(s11, "c_x3", "mul", "c", "x3")
        s13 == G2Let(s12, "y3", "sub", "e", "c_x3")
        s14 == G2Let(s13, "f", "negate", "c", "")
        s15 == G2Let(s14, "r.x", "clone", "x3", "")
        s16 == G2Let(s15, "r.y", "clone", "y3", "")
    IN G2Push(s16, "e", "f", twist, "double", k)

\* G2PreparedVar::add
G2Add(st, twist, k) ==
    LET s1 == G2Let(st, "t", "sub", "q.x", "r.x")
        s2 == G2Let(s1, "a", "inverse", "t", "")
        s3 == G2Let(s2, "b", "sub", "q.y", "r.y")
        s4 == G2Let(s3, "c", "mul", "a", "b")
        s5 == G2Let(s4, "d", "add", "r.x", "q.x")
        s6 == G2Let(s5, "t", "square", "c", "")
        s7 == G2Let(s6, "x3", "sub", "t", "d")
        s8 == G2Let(s7, "t", "sub", "r.x", "x3")
        s9 == G2Let(s8, "e", "mul", "t", "c")
        s10 == G2Let(s9, "y3", "sub", "e", "r.y")
        s11 == G2Let(s10, "t", "mul", "c", "r.x")
        s12 == G2Let(s11, "g", "sub", "t", "r.y")
        s13 == G2Let(s12, "f", "negate", "c", "")
        s14 == G2Let(s13, "r.x", "clone", "x3", "")
        s15 == G2Let(s14, "r.y", "clone", "y3", "")
    IN G2Push(s15, "g", "f", twist, "add", k)

\* a body that adds before it doubles
G2Body_AddFirst(st, bit, k, twist) ==
    LET two_inv == FInverse(FAdd(1, 1))
    IN IF bit = 0 THEN G2Double(st, two_inv, twist, k)
       ELSE G2Double(G2Add(st, twist, k), two_inv, twist, k)

\* the body of the scan for the bit at position k
G2Body(st, bit, k, twist) ==
    LET two_inv == FInverse(FAdd(1, 1))
        d == G2Double(st, two_inv, twist, k)
    IN IF bit = 0 THEN d ELSE G2Add(d, twist, k)

RECURSIVE G2Scan(_, _, _, _)
\* for i in BitIteratorBE::new(P::X).skip(1)
G2Scan(st, bits, k, twist) ==
    IF k > Len(bits) \/ st.err # "ok" THEN st
    ELSE G2Scan(G2Body(st, bits[k], k, twist), bits, k + 1, twist)

\* the value from_group_var returns for the final state st of the scan
G2Prepared(st, not_infinity) ==
    RetCoeffs(st.cs, IF st.err = "ok" THEN st.ell_coeffs ELSE <<>>, st.err,
              [not_infinity |-> not_infinity, steps |-> st.steps])

\* G2PreparedVar::from_group_var without the assertion on the infinity flag
G2FromGroupVar_NoAssertion(c, q, X, twist) ==
    G2Prepared(G2Scan(G2State(c, q, <<>>, <<>>, "ok"), BitIteratorBE(X), 2, twist),
               Len(c.cons) + 1)

\* G2PreparedVar::from_group_var that scans every bit of the loop parameter
G2FromGroupVar_NoSkip(c, q, X, twist) ==
    LET c1 == BoolEnforceNotEqual(c, q.infinity, BoolConstant(1))
    IN G2Prepared(G2Scan(G2State(c1, q, <<>>, <<>>, "ok"), BitIteratorBE(X), 1, twist),
                  Len(c.cons) + 1)

\* G2PreparedVar::from_group_var on the affine form q of the point
G2FromGroupVar(c, q, X, twist) ==
    LET c1 == BoolEnforceNotEqual(c, q.infinity, BoolConstant(1))
    IN G2Prepared(G2Scan(G2State(c1, q, <<>>, <<>>, "ok"), BitIteratorBE(X), 2, twist),
                  Len(c.cons) + 1)

----------------------------------------------------------------------------
(* Conditional inequality *)

\* AllocatedFp::conditional_enforce_not_equal
AllocConditionalEnforceNotEqual(c, self, other, should_enforce) ==
    IF c.mode = "prove"
       /\ (~Known(should_enforce.value)
           \/ (should_enforce.value = 1 /\ ~(Known(self.value) /\ Known(other.value))))
    THEN Ret(c, NoFp, "AssignmentMissing")
    ELSE LET mval == IF c.mode # "prove" THEN NoValue
                     ELSE IF should_enforce.value = 1
                          THEN UnwrapOrZero(FInverse(FSub(self.value, other.value)))
                          ELSE 0
             multiplier == AllocNewVariable(c, mval, "Witness")
             c1 == EnforceR1cs(multiplier.cs, LcDiff(self.variable, other.variable),
                               Lc1(multiplier.out.variable), should_enforce.lc)
         IN [Ret(c1, NoFp, "ok") EXCEPT !.aux = <<multiplier.out.variable.index>>]

\* EqGadget::conditional_enforce_not_equal for FpVar
FpConditionalEnforceNotEqual(c, self, other, should_enforce) ==
    CASE self.tag = "Constant" /\ other.tag = "Constant" -> Ret(c, NoFp, "ok")
      [] self.tag = "Constant" /\ other.tag = "Var" ->
            LET k == AllocNewVariable(c, self.value, "Constant")
            IN AllocConditionalEnforceNotEqual(k.cs, k.out, other, should_enforce)
      [] self.tag = "Var" /\ other.tag = "Constant" ->
            LET k == AllocNewVariable(c, other.value, "Constant")
            IN AllocConditionalEnforceNotEqual(k.cs, k.out, self, should_enforce)
      [] OTHER -> AllocConditionalEnforceNotEqual(c, self, other, should_enforce)

----------------------------------------------------------------------------
(* Multiplication and squaring assertions *)

\* AllocatedFp::mul_equals
AllocMulEquals(c, self, other, result) ==
    Ret(EnforceR1cs(c, Lc1(self.variable), Lc1(other.variable), Lc1(result.variable)),
        NoFp, "ok")

\* AllocatedFp::square_equals
AllocSquareEquals(c, self, result) ==
    Ret(EnforceR1cs(c, Lc1(self.variable), Lc1(self.variable), Lc1(result.variable)),
        NoFp, "ok")

\* FieldVar::mul_equals for FpVar
FpMulEquals(c, self, other, result) ==
    CASE IsConstant(self) /\ IsConstant(other) /\ IsConstant(result) -> Ret(c, NoFp, "ok")
      [] IsConstant(self) \/ IsConstant(other) ->
            LET product == FpMul(c, self, other)
            IN IF product.err # "ok" THEN product
               ELSE FpEnforceEqual(product.cs, result, product.out)
      [] IsVar(result) -> AllocMulEquals(c, self, other, result)
      [] OTHER ->
            LET v3 == AllocNewVariable(c, result.value, "Constant")
            IN AllocMulEquals(v3.cs, self, other, v3.out)

\* FieldVar::square_equals for FpVar
FpSquareEquals(c, self, result) ==
    CASE IsConstant(self) /\ IsConstant(result) -> Ret(c, NoFp, "ok")
      [] IsConstant(self) ->
            LET v == AllocNewVariable(c, self.value, "Witness")
            IN [AllocSquareEquals(v.cs, v.out, result)
                  EXCEPT !.aux = <<v.out.variable.index>>]
      [] IsConstant(result) ->
            LET r == AllocNewVariable(c, result.value, "Witness")
            IN [AllocSquareEquals(r.cs, self, r.out)
                  EXCEPT !.aux = <<r.out.variable.index>>]
      [] OTHER -> AllocSquareEquals(c, self, result)

----------------------------------------------------------------------------
(* Conditional selection and table lookups *)

\* lc * k
LcScale(lc, k) == [i \in 1 .. Len(lc) |-> <<FMul(lc[i][1], k), lc[i][2]>>]

\* is_constant() / cs().is_none() of a slice of booleans
AllBoolConstant(b) == \A i \in 1 .. Len(b) : b[i].tag = "Constant"

\* AllocatedFp::from(Boolean): a linear combination equal to the boolean
AllocFromBoolean(c, b) ==
    LET r == NewLc(c, b.lc)
    IN Ret(r.cs, AllocatedFp(b.value, r.variable), "ok")

\* AllocatedFp::conditionally_select
AllocConditionallySelect(c, cond, true_val, false_val) ==
    CASE cond.tag = "Constant" /\ cond.value = 1 -> Ret(c, true_val, "ok")
      [] cond.tag = "Constant" -> Ret(c, false_val, "ok")
      [] OTHER ->
            LET chosen == IF cond.value = 1 THEN true_val ELSE false_val
            IN IF c.mode = "prove" /\ (~Known(cond.value) \/ ~Known(chosen.value))
               THEN Ret(c, NoFp, "AssignmentMissing")
               ELSE LET result == AllocNewVariable(c, chosen.value, "Witness")
                        c1 == EnforceR1cs(result.cs, cond.lc,
                                          LcDiff(true_val.variable, false_val.variable),
                                          LcDiff(result.out.variable, false_val.variable))
                    IN Ret(c1, result.out, "ok")

\* CondSelectGadget::conditionally_select for FpVar
FpConditionallySelect(c, cond, true_value, false_value) ==
    CASE cond.tag = "Constant" /\ cond.value = 1 -> Ret(c, true_value, "ok")
      [] cond.tag = "Constant" -> Ret(c, false_value, "ok")
      [] IsConstant(true_value) /\ IsConstant(false_value) ->
            LET is == AllocFromBoolean(c, cond)
                not == AllocFromBoolean(is.cs, BoolNot(cond))
                t == AllocMulConstant(not.cs, is.out, true_value.value)
                f == AllocMulConstant(t.cs, not.out, false_value.value)
            IN AllocAdd(f.cs, t.out, f.out)
      [] OTHER ->
            LET t == IF IsConstant(true_value)
                     THEN AllocNewVariable(c, true_value.value, "Constant")
                     ELSE Ret(c, true_value, "ok")
                f == IF IsConstant(false_value)
                     THEN AllocNewVariable(t.cs, false_value.value, "Constant")
                     ELSE Ret(t.cs, false_value, "ok")
            IN AllocConditionallySelect(f.cs, cond, t.out, f.out)

\* the table entry selected by the two low bits; the table c[0..3] is the
\* sequence c of length 4
TableEntry(b, c) == c[b[1].value + 2 * b[2].value + 1]

\* AllocatedFp::two_bit_lookup with c[1] for c[2] in the right-hand side
AllocTwoBitLookup_WrongEntry(cs0, b, c) ==
    IF cs0.mode = "prove" /\ ~(Known(b[1].value) /\ Known(b[2].value))
    THEN Ret(cs0, NoFp, "AssignmentMissing")
    ELSE LET result == AllocNewVariable(cs0, IF cs0.mode = "prove" THEN TableEntry(b, c) ELSE NoValue,
                                        "Witness")
             la == LcScale(b[2].lc, FAdd(FSub(FSub(c[4], c[3]), c[2]), c[1]))
                   \o << <<FSub(c[2], c[1]), One>> >>
             lb == b[1].lc
             lc == << <<1, result.out.variable>>, <<FNeg(c[1]), One>> >>
                   \o LcScale(b[2].lc, FSub(c[1], c[2]))
         IN Ret(EnforceR1cs(result.cs, la, lb, lc), result.out, "ok")

\* AllocatedFp::two_bit_lookup
AllocTwoBitLookup(cs0, b, c) ==
    IF cs0.mode = "prove" /\ ~(Known(b[1].value) /\ Known(b[2].value))
    THEN Ret(cs0, NoFp, "AssignmentMissing")
    ELSE LET result == AllocNewVariable(cs0, IF cs0.mode = "prove" THEN TableEntry(b, c) ELSE NoValue,
                                        "Witness")
             la == LcScale(b[2].lc, FAdd(FSub(FSub(c[4], c[3]), c[2]), c[1]))
                   \o << <<FSub(c[2], c[1]), One>> >>
             lb == b[1].lc
             lc == << <<1, result.out.variable>>, <<FNeg(c[1]), One>> >>
                   \o LcScale(b[2].lc, FSub(c[1], c[3]))
         IN Ret(EnforceR1cs(result.cs, la, lb, lc), result.out, "ok")

\* two_bit_lookup for FpVar that does not fold constant bits
FpTwoBitLookup_NoFold(cs0, b, c) == AllocTwoBitLookup(cs0, b, c)

\* TwoBitLookupGadget::two_bit_lookup for FpVar
FpTwoBitLookup(cs0, b, c) ==
    IF AllBoolConstant(b) THEN Ret(cs0, Constant(TableEntry(b, c)), "ok")
    ELSE AllocTwoBitLookup(cs0, b, c)

\* the table entry selected by the two low bits, negated when the third is set
CondNegEntry(b, c) == IF b[3].value = 1 THEN FNeg(TableEntry(b, c)) ELSE TableEntry(b, c)

\* AllocatedFp::three_bit_cond_neg_lookup
AllocThreeBitCondNegLookup(cs0, b, b0b1, c) ==
    IF cs0.mode = "prove" /\ ~(\A i \in 1 .. 3 : Known(b[i].value))
    THEN Ret(cs0, NoFp, "AssignmentMissing")
    ELSE LET result == AllocNewVariable(cs0, IF cs0.mode = "prove" THEN CondNegEntry(b, c) ELSE NoValue,
                                        "Witness")
             la == LcScale(b0b1.lc, FAdd(FSub(FSub(c[4], c[3]), c[2]), c[1]))
                   \o LcScale(b[1].lc, FSub(c[2], c[1]))
                   \o LcScale(b[2].lc, FSub(c[3], c[1]))
                   \o << <<c[1], One>> >>
             lb == LcScale(b[3].lc, FNeg(FAdd(1, 1))) \o << <<1, One>> >>
         IN Ret(EnforceR1cs(result.cs, la, lb, Lc1(result.out.variable)), result.out, "ok")

\* ThreeBitCondNegLookupGadget::three_bit_cond_neg_lookup for FpVar
FpThreeBitCondNegLookup(cs0, b, b0b1, c) ==
    IF AllBoolConstant(b) /\ b0b1.tag = "Constant"
    THEN Ret(cs0, Constant(CondNegEntry(b, c)), "ok")
    ELSE AllocThreeBitCondNegLookup(cs0, b, b0b1, c)

\* GR1CSVar::value for FpVar: the witness, or the error of a missing one
FpValue(x) ==
    IF Known(x.value) THEN [value |-> x.value, err |-> "ok"]
    ELSE [value |-> NoValue, err |-> "AssignmentMissing"]

----------------------------------------------------------------------------
(* Decomposition into a given number of low bits *)

\* Boolean::le_bits_to_fp on fewer bits than the modulus has: the sum of
\* 2^i * bit_i, a constant when every bit is a constant
BoolLeBitsToFp(c, bits) ==
    LET known == \A i \in 1 .. Len(bits) : Known(bits[i].value)
        value == IF known
                 THEN SumValues([i \in 1 .. Len(bits) |->
                                    Constant(FMul(Coeff(i - 1), bits[i].value))])
                 ELSE NoValue
        r == NewLc(c, Compactify([i \in 1 .. Len(bits) |->
                                     <<Coeff(i - 1), BoolVariable(bits[i])>>]))
    IN IF AllBoolConstant(bits) THEN Ret(c, Constant(value), "ok")
       ELSE Ret(r.cs, AllocatedFp(value, r.variable), "ok")

\* FpVar::to_bits_le_with_top_bits_zero
FpToBitsLeWithTopBitsZero(c, self, size) ==
    IF size >= ModulusBitSize THEN RetBits(c, <<>>, "panic", <<>>)
    ELSE IF ~Known(self.value) /\ size > 0 /\ (IsConstant(self) \/ c.mode = "prove")
    THEN RetBits(c, <<>>, "AssignmentMissing", <<>>)
    ELSE LET a == IF IsConstant(self)
                  THEN [cs |-> c,
                        bits |-> [k \in 1 .. size |-> BoolConstant(GetBit(self.value, k - 1))]]
                  ELSE AllocBits(c, [k \in 1 .. size |->
                                        GetBit(UnwrapOrZero(self.value), k - 1)])
             lower_bits_fp == BoolLeBitsToFp(a.cs, a.bits)
             rest == FpSub(lower_bits_fp.cs, self, lower_bits_fp.out)
             e == FpEnforceEqual(rest.cs, rest.out, Constant(0))
         IN [RetBits(e.cs, a.bits, e.err,
                     [k \in 1 .. size |-> IF IsConstant(self) THEN 0
                                          ELSE BoolVariable(a.bits[k]).index])
             EXCEPT !.out = rest.out]

----------------------------------------------------------------------------
(* State machine *)

Modes == {"Constant", "Witness", "Input"}

NoCall ==
    [op |-> "none", args |-> <<>>, args2 |-> <<>>, out |-> NoFp, bout |-> NoBool,
     err |-> "ok", aux |-> <<>>, bits |-> <<>>, ell_coeffs |-> <<>>,
     pre |-> EmptyCs("prove")]

\* the record of a gadget call made in the current state
Call(op, args, args2, r) ==
    [op |-> op, args |-> args, args2 |-> args2, out |-> r.out, bout |-> r.bout,
     err |-> r.err, aux |-> r.aux, bits |-> r.bits, ell_coeffs |-> r.ell_coeffs,
     pre |-> cs]

Do(op, args, args2, r) ==
    /\ cs' = r.cs
    /\ last' = Call(op, args, args2, r)
    /\ UNCHANGED vals

\* a gadget call whose boolean operand was allocated just before it, leaving
\* the constraint system c0
DoAfter(c0, op, args, args2, r) ==
    /\ cs' = r.cs
    /\ last' = [Call(op, args, args2, r) EXCEPT !.pre = c0]
    /\ UNCHANGED vals

Init ==
    /\ cs = EmptyCs("prove")
    /\ vals = <<>>
    /\ last = NoCall

Idx == 1 .. Len(vals)
VarIdx == {i \in Idx : IsVar(vals[i])}
VarSeq == SelectSeq(vals, IsVar)

\* index sequences of length n over S
Seqs(S, n) == [1 .. n -> S]
SeqsUpTo(S, n) == UNION {Seqs(S, k) : k \in 0 .. n}
Pick(is) == [k \in 1 .. Len(is) |-> vals[is[k]]]

\* the circuit allocates a field element
NewVariable ==
    /\ last.op = "none"
    /\ Len(vals) < MaxVals
    /\ \E mode \in Modes, f \in Fp :
          LET r == FpNewVariable(cs, f, mode)
          IN /\ cs' = r.cs
             /\ vals' = Append(vals, r.out)
             /\ last' = last

Add ==
    /\ last.op = "none"
    /\ \E i \in Idx, j \in Idx :
          Do("add", <<vals[i], vals[j]>>, <<>>, FpAdd(cs, vals[i], vals[j]))

Sub ==
    /\ last.op = "none"
    /\ \E i \in Idx, j \in Idx :
          Do("sub", <<vals[i], vals[j]>>, <<>>, FpSub(cs, vals[i], vals[j]))

Mul ==
    /\ last.op = "none"
    /\ \E i \in Idx, j \in Idx :
          Do("mul", <<vals[i], vals[j]>>, <<>>, FpMul(cs, vals[i], vals[j]))

Square ==
    /\ last.op = "none"
    /\ \E i \in Idx : Do("square", <<vals[i]>>, <<>>, FpSquare(cs, vals[i]))

Inverse ==
    /\ last.op = "none"
    /\ \E i \in Idx : Do("inverse", <<vals[i]>>, <<>>, FpInverse(cs, vals[i]))

IsEq ==
    /\ last.op = "none"
    /\ \E i \in Idx, j \in Idx :
          Do("is_eq", <<vals[i], vals[j]>>, <<>>, FpIsEq(cs, vals[i], vals[j]))

IsNeq ==
    /\ last.op = "none"
    /\ \E i \in Idx, j \in Idx :
          Do("is_neq", <<vals[i], vals[j]>>, <<>>, FpIsNeq(cs, vals[i], vals[j]))

AddMany ==
    /\ last.op = "none"
    /\ \E is \in SeqsUpTo(VarIdx, MaxLen) :
          Do("add_many", Pick(is), <<>>, AllocAddMany(cs, Pick(is)))

\* the operands are the first n allocated variables; coefficient k is the value
\* of any allocated element whose value is known
LinearCombination ==
    /\ last.op = "none"
    /\ \E n \in 0 .. MaxLen :
          /\ n <= Len(VarSeq)
          /\ \E js \in Seqs(Idx, n) :
                LET coeffs == [k \in 1 .. n |-> vals[js[k]].value]
                    other == SubSeq(VarSeq, 1, n)
                IN /\ \A k \in 1 .. n : Known(coeffs[k])
                   /\ Do("linear_combination", other, coeffs,
                         AllocLinearCombination(cs, coeffs, other))

\* `this` is the slice of the first n allocated elements; `other` pairs each of
\* them with any allocated element
InnerProduct ==
    /\ last.op = "none"
    /\ \E n \in 0 .. MaxLen :
          /\ n <= Len(vals)
          /\ \E js \in Seqs(Idx, n) :
                Do("inner_product", SubSeq(vals, 1, n), Pick(js),
                   FpInnerProduct(cs, SubSeq(vals, 1, n), Pick(js)))

Sum ==
    /\ last.op = "none"
    /\ \E is \in SeqsUpTo(Idx, MaxLen) :
          Do("sum", Pick(is), <<>>, FpSum(cs, Pick(is)))

Next ==
    \/ NewVariable
    \/ Add
    \/ Sub
    \/ Mul
    \/ Square
    \/ Inverse
    \/ IsEq
    \/ IsNeq

\* arithmetic and equality gadgets on allocated field elements
Spec == Init /\ [][Next]_vars

NextBatch ==
    \/ NewVariable
    \/ AddMany
    \/ LinearCombination
    \/ InnerProduct
    \/ Sum

\* batched gadgets on slices of allocated field elements
SpecBatch == Init /\ [][NextBatch]_vars

ToBitsLe ==
    /\ last.op = "none"
    /\ \E i \in Idx : Do("to_bits_le", <<vals[i]>>, <<>>, FpToBitsLe(cs, vals[i]))

ToNonUniqueBitsLe ==
    /\ last.op = "none"
    /\ \E i \in Idx :
          Do("to_non_unique_bits_le", <<vals[i]>>, <<>>, FpToNonUniqueBitsLe(cs, vals[i]))

NextBits ==
    \/ NewVariable
    \/ ToBitsLe
    \/ ToNonUniqueBitsLe

\* bit decompositions of allocated field elements
SpecBits == Init /\ [][NextBits]_vars

\* the circuit allocates the affine form of a G2 point: x, y and the infinity
\* flag, in that order and in the same allocation mode
NewPoint ==
    /\ last.op = "none"
    /\ vals = <<>>
    /\ \E mode \in Modes, x \in Fp, y \in Fp, inf \in {0, 1} :
          LET rx == FpNewVariable(cs, x, mode)
              ry == FpNewVariable(rx.cs, y, mode)
              ri == BoolNewVariable(ry.cs, inf, mode)
          IN /\ cs' = ri.cs
             /\ vals' = <<rx.out, ry.out, ri.b>>
             /\ last' = last

FromGroupVar ==
    /\ last.op = "none"
    /\ Len(vals) = 3
    /\ \E X \in XValues, twist \in TwistTypes :
          LET q == [x |-> vals[1], y |-> vals[2], infinity |-> vals[3]]
          IN Do("from_group_var", <<q>>, <<X, twist>>, G2FromGroupVar(cs, q, X, twist))

NextPairing ==
    \/ NewPoint
    \/ FromGroupVar

\* pairing precomputation on an allocated G2 point
SpecPairing == Init /\ [][NextPairing]_vars

\* the allocation modes of a selector
SelectorModes == {"Constant", "Witness"}

ConditionalEnforceEqual ==
    /\ last.op = "none"
    /\ \E i \in Idx, j \in Idx, b \in {0, 1}, mode \in SelectorModes :
          LET s == BoolNewVariable(cs, b, mode)
          IN DoAfter(s.cs, "conditional_enforce_equal", <<vals[i], vals[j]>>, <<s.b>>,
                     FpConditionalEnforceEqual(s.cs, vals[i], vals[j], s.b))

ConditionalEnforceNotEqual ==
    /\ last.op = "none"
    /\ \E i \in Idx, j \in Idx, b \in {0, 1}, mode \in SelectorModes :
          LET s == BoolNewVariable(cs, b, mode)
          IN DoAfter(s.cs, "conditional_enforce_not_equal", <<vals[i], vals[j]>>, <<s.b>>,
                     FpConditionalEnforceNotEqual(s.cs, vals[i], vals[j], s.b))

NextCond ==
    \/ NewVariable
    \/ ConditionalEnforceEqual
    \/ ConditionalEnforceNotEqual

\* conditional equality and inequality assertions
SpecCond == Init /\ [][NextCond]_vars

MulEquals ==
    /\ last.op = "none"
    /\ \E i \in Idx, j \in Idx, k \in Idx :
          Do("mul_equals", <<vals[i], vals[j], vals[k]>>, <<>>,
             FpMulEquals(cs, vals[i], vals[j], vals[k]))

SquareEquals ==
    /\ last.op = "none"
    /\ \E i \in Idx, k \in Idx :
          Do("square_equals", <<vals[i], vals[k]>>, <<>>,
             FpSquareEquals(cs, vals[i], vals[k]))

NextMulEquals ==
    \/ NewVariable
    \/ MulEquals
    \/ SquareEquals

\* multiplication and squaring assertions
SpecMulEquals == Init /\ [][NextMulEquals]_vars

\* lookup tables: four field constants
Tables == [1 .. 4 -> Fp]

ConditionallySelect ==
    /\ last.op = "none"
    /\ \E i \in Idx, j \in Idx, b \in {0, 1}, mode \in SelectorModes :
          LET s == BoolNewVariable(cs, b, mode)
          IN DoAfter(s.cs, "conditionally_select", <<vals[i], vals[j]>>, <<s.b>>,
                     FpConditionallySelect(s.cs, s.b, vals[i], vals[j]))

\* the lookups take bits and table constants, no field elements: they are
\* called on a constraint system that holds nothing but the bits
TwoBitLookup ==
    /\ last.op = "none"
    /\ vals = <<>>
    /\ \E v \in [1 .. 2 -> {0, 1}], m \in [1 .. 2 -> SelectorModes], c \in Tables :
          LET b0 == BoolNewVariable(cs, v[1], m[1])
              b1 == BoolNewVariable(b0.cs, v[2], m[2])
              b == <<b0.b, b1.b>>
          IN DoAfter(b1.cs, "two_bit_lookup", <<>>, <<b, c>>, FpTwoBitLookup(b1.cs, b, c))

ThreeBitCondNegLookup ==
    /\ last.op = "none"
    /\ vals = <<>>
    /\ \E v \in [1 .. 3 -> {0, 1}], m \in [1 .. 3 -> SelectorModes], c \in Tables :
          LET b0 == BoolNewVariable(cs, v[1], m[1])
              b1 == BoolNewVariable(b0.cs, v[2], m[2])
              b2 == BoolNewVariable(b1.cs, v[3], m[3])
              b0b1 == BoolAnd(b2.cs, b0.b, b1.b)
              b == <<b0.b, b1.b, b2.b>>
          IN DoAfter(b0b1.cs, "three_bit_cond_neg_lookup", <<>>, <<b, c, b0b1.b>>,
                     FpThreeBitCondNegLookup(b0b1.cs, b, b0b1.b, c))

NextSelect ==
    \/ NewVariable
    \/ ConditionallySelect
    \/ TwoBitLookup
    \/ ThreeBitCondNegLookup

\* conditional selection and table lookups
SpecSelect == Init /\ [][NextSelect]_vars

\* the coefficients a caller passes to linear_combination
ShapeCoeffs == {1, P - 1}

\* AllocatedFp::linear_combination on m coefficients and n variables
ShapeLinearCombination ==
    /\ last.op = "none"
    /\ \E m \in 0 .. MaxLen, n \in 0 .. MaxLen :
          /\ n <= Len(VarSeq)
          /\ \E coeffs \in Seqs(ShapeCoeffs, m) :
                Do("linear_combination", SubSeq(VarSeq, 1, n), coeffs,
                   AllocLinearCombination(cs, coeffs, SubSeq(VarSeq, 1, n)))

\* AllocatedFp::inner_product on the first m variables and the last n ones
ShapeAllocInnerProduct ==
    /\ last.op = "none"
    /\ \E m \in 0 .. MaxLen, n \in 0 .. MaxLen :
          /\ m <= Len(VarSeq)
          /\ n <= Len(VarSeq)
          /\ Do("alloc_inner_product", SubSeq(VarSeq, 1, m), SubSeq(Reverse(VarSeq), 1, n),
                AllocInnerProduct(cs, SubSeq(VarSeq, 1, m), SubSeq(Reverse(VarSeq), 1, n)))

\* FpVar::inner_product on the first m elements and the last n ones
ShapeInnerProduct ==
    /\ last.op = "none"
    /\ \E m \in 0 .. MaxLen, n \in 0 .. MaxLen :
          /\ m <= Len(vals)
          /\ n <= Len(vals)
          /\ Do("inner_product", SubSeq(vals, 1, m), SubSeq(Reverse(vals), 1, n),
                FpInnerProduct(cs, SubSeq(vals, 1, m), SubSeq(Reverse(vals), 1, n)))

NextShape ==
    \/ NewVariable
    \/ ShapeLinearCombination
    \/ ShapeAllocInnerProduct
    \/ ShapeInnerProduct

\* the batched operations on sequences of any two lengths
SpecShape == Init /\ [][NextShape]_vars

\* the values a longer circuit allocates, the operations it applies to them
\* and the size of the constraint system up to which it goes on
SeqValues == {0, P - 1}
SeqOps == {"add", "mul", "inverse", "negate", "frobenius_map"}
SeqMaxLcs == MaxLen

\* the gadget named op on the receiver x and the operand y
SeqApply(op, c, x, y) ==
    CASE op = "add" -> FpAdd(c, x, y)
      [] op = "mul" -> FpMul(c, x, y)
      [] op = "inverse" -> FpInverse(c, x)
      [] op = "negate" -> FpNegate(c, x)
      [] OTHER -> FpFrobeniusMap(c, x, 1)

\* the circuit allocates a field element at any point
SeqNewVariable ==
    /\ Len(vals) < MaxVals
    /\ \E mode \in SelectorModes, f \in SeqValues :
          LET r == FpNewVariable(cs, f, mode)
          IN /\ cs' = r.cs
             /\ vals' = Append(vals, r.out)
             /\ last' = Call("new_variable", <<>>, <<>>, r)

\* the circuit applies a gadget to a value it holds, with the latest value as
\* the operand, and keeps the value the gadget returns, if it returns one, or
\* drops it
SeqCall ==
    /\ Len(cs.lcs) + Len(cs.cons) < SeqMaxLcs
    /\ \E op \in SeqOps, i \in Idx, j \in {Len(vals)} :
          LET r == SeqApply(op, cs, vals[i], vals[j])
          IN /\ cs' = r.cs
             /\ vals' = IF r.err = "ok" /\ Len(vals) < MaxVals THEN Append(vals, r.out)
                        ELSE vals
             /\ last' = Call(op, <<vals[i], vals[j]>>, <<i, j>>, r)

\* negate_in_place: the receiver is rebound to the negated value
SeqNegateInPlace ==
    /\ Len(cs.lcs) + Len(cs.cons) < SeqMaxLcs
    /\ \E i \in Idx :
          LET r == FpNegate(cs, vals[i])
          IN /\ cs' = r.cs
             /\ vals' = [vals EXCEPT ![i] = r.out]
             /\ last' = Call("negate_in_place", <<vals[i]>>, <<i>>, r)

\* frobenius_map_in_place: *self = self.frobenius_map(power)?
SeqFrobeniusMapInPlace ==
    /\ \E i \in Idx :
          LET r == FpFrobeniusMap(cs, vals[i], 1)
          IN /\ cs' = r.cs
             /\ vals' = IF r.err = "ok" THEN [vals EXCEPT ![i] = r.out] ELSE vals
             /\ last' = Call("frobenius_map_in_place", <<vals[i]>>, <<i>>, r)

NextSeq ==
    \/ SeqNewVariable
    \/ SeqCall
    \/ SeqNegateInPlace
    \/ SeqFrobeniusMapInPlace

\* sequences of allocations and gadget calls on one constraint system
SpecSeq == Init /\ [][NextSeq]_vars

\* size ranges over the sizes the assertion admits and the first it rejects
ToBitsLeWithTopBitsZero ==
    /\ last.op = "none"
    /\ \E i \in Idx, size \in 0 .. ModulusBitSize :
          Do("to_bits_le_with_top_bits_zero", <<vals[i]>>, <<size>>,
             FpToBitsLeWithTopBitsZero(cs, vals[i], size))

NextTopBits ==
    \/ NewVariable
    \/ ToBitsLeWithTopBitsZero

\* decomposition into a given number of low bits
SpecTopBits == Init /\ [][NextTopBits]_vars

\* AllocatedFp::new(Some(f), Variable::One, ConstraintSystemRef::None): a
\* compile-time constant held as an AllocatedFp
AllocatedConstant(f) == [tag |-> "Var", value |-> f, variable |-> One, cs |-> "None"]
AsAllocated(s) ==
    [k \in 1 .. Len(s) |-> IF IsConstant(s[k]) THEN AllocatedConstant(s[k].value) ELSE s[k]]

\* AllocatedFp::inner_product on the first n allocated elements, each paired
\* with any allocated element
AllocInnerProductCall ==
    /\ last.op = "none"
    /\ \E n \in 0 .. MaxLen :
          /\ n <= Len(vals)
          /\ \E js \in Seqs(Idx, n) :
                Do("alloc_inner_product", AsAllocated(SubSeq(vals, 1, n)), AsAllocated(Pick(js)),
                   AllocInnerProduct(cs, AsAllocated(SubSeq(vals, 1, n)), AsAllocated(Pick(js))))

NextAllocInnerProduct ==
    \/ NewVariable
    \/ AllocInnerProductCall

\* AllocatedFp::inner_product on variables and compile-time constants
SpecAllocInnerProduct == Init /\ [][NextAllocInnerProduct]_vars

\* the constraint system is created for proving, where witnesses are assigned,
\* or for setup, where they are not
InitSetup ==
    /\ cs \in {EmptyCs("prove"), EmptyCs("setup")}
    /\ vals = <<>>
    /\ last = NoCall

NextSetup ==
    \/ NewVariable
    \/ Add
    \/ Sub
    \/ AddMany
    \/ LinearCombination
    \/ InnerProduct

\* the linear gadgets with and without witness assignments
SpecSetup == InitSetup /\ [][NextSetup]_vars

----------------------------------------------------------------------------
(* Properties of the equality and inversion gadgets *)

IsCall(ops) == last.op \in ops
Arg(i) == last.args[i]
\* what the last call appended to the constraint system
NewCons == Len(cs.cons) - Len(last.pre.cons)
NewLcs == Len(cs.lcs) - Len(last.pre.lcs)
NewWitnesses == Len(cs.witness) - Len(last.pre.witness)
NewInstances == Len(cs.instance) - Len(last.pre.instance)
\* the witness assignment with the witnesses at indices ix replaced by the values vs
Reassign(ix, vs) ==
    [k \in 1 .. Len(cs.witness) |->
        IF \E n \in 1 .. Len(ix) : ix[n] = k
        THEN vs[CHOOSE n \in 1 .. Len(ix) : ix[n] = k]
        ELSE cs.witness[k]]

\* what is_eq / is_neq guarantee apart from the value of the multiplier witness:
\* the boolean is true exactly when it should be, its linear-combination view
\* evaluates to its value, and the constraint system is satisfied
IsEqOutcome ==
    LET equal == Arg(1).value = Arg(2).value
        expected == IF equal = (last.op = "is_eq") THEN 1 ELSE 0
    IN /\ last.err = "ok"
       /\ last.bout.value = expected
       /\ EvalLc(cs, cs.witness, last.bout.lc) = expected
       /\ IsSatisfied(cs)
       /\ (IsConstant(Arg(1)) /\ IsConstant(Arg(2))) => last.bout.tag = "Constant"
       /\ (IsVar(Arg(1)) \/ IsVar(Arg(2))) => (last.bout.tag = "Var" /\ NewCons = 2)

\* C1 as stated: for operands x, y with known values, in every Constant/Var
\* combination, is_eq(x, y) is true (and is_neq false) exactly when x = y, the
\* registered constraints are satisfied by the gadget's own assignment, and
\* the multiplier witness is the inverse of x - y when they differ, 1 when equal.
C1_AsStated ==
    IsCall({"is_eq", "is_neq"}) =>
        /\ IsEqOutcome
        /\ (IsVar(Arg(1)) \/ IsVar(Arg(2))) =>
              cs.witness[last.aux[2]] =
                 IF Arg(1).value = Arg(2).value THEN 1
                 ELSE FInverse(FSub(Arg(1).value, Arg(2).value))

\* C1 amended: as stated, except that the multiplier witness is the inverse of
\* the difference the gadget registers: x - y for two Vars and for
\* (Constant x, Var y), but y - x for (Var x, Constant y), where the constant
\* becomes the receiver of the symbolic is_eq.
C1_IsEqCompleteness ==
    IsCall({"is_eq", "is_neq"}) =>
        /\ IsEqOutcome
        /\ (IsVar(Arg(1)) \/ IsVar(Arg(2))) =>
              LET d == IF IsVar(Arg(1)) /\ IsConstant(Arg(2))
                       THEN FSub(Arg(2).value, Arg(1).value)
                       ELSE FSub(Arg(1).value, Arg(2).value)
              IN /\ cs.witness[last.aux[2]] = IF d = 0 THEN 1 ELSE FInverse(d)
                 /\ EvalLc(cs, cs.witness, cs.cons[Len(cs.cons)].a) = d

\* is_neq of a variable against a different constant: true, satisfied, and the
\* multiplier is the inverse of constant - variable
C1_Witness ==
    /\ last.op = "is_neq"
    /\ IsVar(Arg(1)) /\ IsConstant(Arg(2))
    /\ Arg(1).value # Arg(2).value
    /\ last.bout.value = 1
    /\ IsSatisfied(cs)
    /\ cs.witness[last.aux[2]] = FInverse(FSub(Arg(2).value, Arg(1).value))
    /\ cs.witness[last.aux[2]] # FInverse(FSub(Arg(1).value, Arg(2).value))

\* scenario B: is_neq of a witness against the constant of the same value is
\* false and the constraint system is satisfied
ScenarioB ==
    /\ last.op = "is_neq"
    /\ IsVar(Arg(1)) /\ IsConstant(Arg(2))
    /\ Arg(1).value = Arg(2).value
    /\ last.bout.value = 0
    /\ IsSatisfied(cs)

\* C2: whatever field elements a prover assigns to the auxiliary witnesses
\* is_not_equal and multiplier, if the two constraints of is_neq hold then
\* is_not_equal is 1 when the operands differ and 0 when they are equal.
C2_IsNeqSoundness ==
    (IsCall({"is_eq", "is_neq"}) /\ last.aux # <<>>) =>
        \A a \in Fp, m \in Fp :
            IsSatisfiedWith(cs, Reassign(last.aux, <<a, m>>)) =>
                a = IF Arg(1).value # Arg(2).value THEN 1 ELSE 0

\* is_neq was called on two variables of different values, and some assignment
\* of the auxiliary witnesses other than the gadget's own violates a constraint
C2_Witness ==
    /\ last.op = "is_neq"
    /\ IsVar(Arg(1)) /\ IsVar(Arg(2))
    /\ Arg(1).value # Arg(2).value
    /\ Len(last.aux) = 2
    /\ \E a \in Fp, m \in Fp : ~IsSatisfiedWith(cs, Reassign(last.aux, <<a, m>>))
    /\ IsSatisfiedWith(cs, Reassign(last.aux, <<1, cs.witness[last.aux[2]]>>))

\* C3: the inverse of a nonzero x has a witness whose product with x is 1 and
\* the constraint x * inverse = 1 holds; for x = 0 the witness is 0, the
\* constraint reads 0 * 0 = 1, and no value of the inverse variable satisfies it.
C3_Inverse ==
    (IsCall({"inverse"}) /\ IsVar(Arg(1))) =>
        LET k == cs.cons[Len(cs.cons)]
            inv == last.out.variable.index
        IN /\ last.err = "ok"
           /\ NewCons = 1
           /\ last.out.variable.kind = "Witness"
           /\ cs.witness[inv] = last.out.value
           /\ k = [a |-> Lc1(Arg(1).variable), b |-> Lc1(last.out.variable), c |-> Lc1(One)]
           /\ Arg(1).value # 0 =>
                 /\ FMul(last.out.value, Arg(1).value) = 1
                 /\ IsSatisfied(cs)
           /\ Arg(1).value = 0 =>
                 /\ last.out.value = 0
                 /\ EvalLc(cs, cs.witness, k.a) = 0
                 /\ EvalLc(cs, cs.witness, k.b) = 0
                 /\ EvalLc(cs, cs.witness, k.c) = 1
                 /\ \A v \in Fp : ~IsSatisfiedWith(cs, Reassign(<<inv>>, <<v>>))

\* scenario C: a zero-valued witness was inverted and the system is unsatisfied
C3_Witness ==
    /\ last.op = "inverse"
    /\ IsVar(Arg(1))
    /\ Arg(1).value = 0
    /\ last.out.value = 0
    /\ ~IsSatisfied(cs)

C5_ConstantFolding ==
    (IsCall({"add", "sub", "mul", "is_eq"}) /\ IsConstant(Arg(1)) /\ IsConstant(Arg(2))) =>
        LET a == Arg(1).value
            b == Arg(2).value
        IN /\ cs = last.pre
           /\ last.err = "ok"
           /\ last.op = "add" => last.out = Constant((a + b) % P)
           /\ last.op = "sub" => last.out = Constant((a - b) % P)
           /\ last.op = "mul" => last.out = Constant((a * b) % P)
           /\ last.op = "is_eq" =>
                 /\ last.bout.tag = "Constant"
                 /\ last.bout.value = IF a = b THEN 1 ELSE 0

\* two constants whose difference wraps around the modulus were subtracted
C5_Witness ==
    /\ last.op = "sub"
    /\ IsConstant(Arg(1)) /\ IsConstant(Arg(2))
    /\ Arg(1).value < Arg(2).value
    /\ IsConstant(last.out)
    /\ cs = last.pre

\* C6: mul and square on two variables register exactly one constraint
\* self * other = product and allocate exactly one witness variable; with a
\* Constant operand no constraint is registered; in every case the result's
\* value is the field product.
C6_MulCost ==
    IsCall({"mul", "square"}) =>
        LET x == Arg(1)
            y == IF last.op = "mul" THEN Arg(2) ELSE Arg(1)
        IN /\ last.err = "ok"
           /\ last.out.value = (x.value * y.value) % P
           /\ (IsVar(x) /\ IsVar(y)) =>
                 /\ NewCons = 1
                 /\ NewWitnesses = 1
                 /\ NewInstances = 0
                 /\ cs.cons[Len(cs.cons)] =
                       [a |-> Lc1(x.variable), b |-> Lc1(y.variable),
                        c |-> Lc1(Witness(Len(cs.witness)))]
                 /\ last.out.variable = Witness(Len(cs.witness))
                 /\ IsSatisfied(cs)
           /\ (IsConstant(x) \/ IsConstant(y)) =>
                 /\ NewCons = 0
                 /\ NewWitnesses = 0
                 /\ NewInstances = 0

\* a variable was multiplied by a constant other than one, free of constraints
C6_Witness ==
    /\ last.op = "mul"
    /\ IsVar(Arg(1)) /\ IsConstant(Arg(2))
    /\ Arg(2).value > 1
    /\ IsVar(last.out)
    /\ NewCons = 0
    /\ NewLcs = 1

----------------------------------------------------------------------------
(* Properties of the batched gadgets *)

RECURSIVE IntDot(_, _, _)
\* sum over i <= n of a[i] * b[i], as an integer
IntDot(a, b, n) == IF n = 0 THEN 0 ELSE a[n] * b[n] + IntDot(a, b, n - 1)

ValuesOf(s) == [i \in 1 .. Len(s) |-> s[i].value]
\* the coefficients of the last add_many / linear_combination call
CallCoeffs == IF last.op = "add_many" THEN [i \in 1 .. Len(last.args) |-> 1] ELSE last.args2
\* the value the result variable of the last call takes in the constraint system
OutEval == EvalLc(cs, cs.witness, Lc1(last.out.variable))

\* exactly one linear combination, no constraint, no variable; the result's
\* witness and its linear combination are the sum of coeff_i * input_i
OneLcWithValue ==
    /\ last.err = "ok"
    /\ NewLcs = 1
    /\ NewCons = 0
    /\ NewWitnesses = 0
    /\ NewInstances = 0
    /\ IsVar(last.out)
    /\ last.out.value = IntDot(CallCoeffs, ValuesOf(last.args), Len(last.args)) % P
    /\ OutEval = last.out.value

EmptyBatch ==
    /\ last.op = "add_many"
    /\ Len(last.args) = 0
    /\ last.out = NoFp

\* C8: on equal-length slices of Constant, Witness and Input elements with
\* known values, FpVar::inner_product returns a value equal to the sum of
\* a_i * b_i, and the constraint system is satisfied after the result is
\* enforced equal to that constant.
C8_InnerProductValue ==
    (IsCall({"inner_product"}) /\ Len(last.args) = Len(last.args2)) =>
        LET expected == IntDot(ValuesOf(last.args), ValuesOf(last.args2), Len(last.args)) % P
            e == FpEnforceEqual(cs, last.out, Constant(expected))
        IN /\ last.err = "ok"
           /\ last.out.value = expected
           /\ e.err = "ok"
           /\ IsSatisfied(e.cs)
           /\ IsVar(last.out) => OutEval = expected

\* an inner product with a Var*Var pair and a pair holding a Constant, nonzero
C8_Witness ==
    /\ last.op = "inner_product"
    /\ Len(last.args) = 2
    /\ \E i \in 1 .. 2 : IsVar(last.args[i]) /\ IsVar(last.args2[i])
    /\ \E i \in 1 .. 2 : IsConstant(last.args[i]) # IsConstant(last.args2[i])
    /\ last.out.value # 0
    /\ IsSatisfied(FpEnforceEqual(cs, last.out, Constant(last.out.value)).cs)

\* positions of the last inner_product call where both elements are Var
BothVar == {i \in 1 .. Len(last.args) : IsVar(last.args[i]) /\ IsVar(last.args2[i])}

RECURSIVE IntSum(_, _)
IntSum(a, n) == IF n = 0 THEN 0 ELSE a[n] + IntSum(a, n - 1)

\* C10: the sum of any sequence of FpVar elements has the field sum of their
\* values, the constraint system is satisfied after the result is enforced
\* equal to that constant, and a sequence without a Var yields a Constant and
\* leaves the constraint system untouched.
C10_Sum ==
    IsCall({"sum"}) =>
        LET expected == IntSum(ValuesOf(last.args), Len(last.args)) % P
            e == FpEnforceEqual(cs, last.out, Constant(expected))
        IN /\ last.err = "ok"
           /\ last.out.value = expected
           /\ IsSatisfied(e.cs)
           /\ IsVar(last.out) => OutEval = expected
           /\ (\A i \in 1 .. Len(last.args) : IsConstant(last.args[i])) =>
                 /\ last.out = Constant(expected)
                 /\ cs = last.pre
           /\ (\E i \in 1 .. Len(last.args) : IsVar(last.args[i])) =>
                 /\ IsVar(last.out)
                 /\ NewCons = 0

\* a Constant and a Var with nonzero values were summed
C10_Witness ==
    /\ last.op = "sum"
    /\ Len(last.args) = 2
    /\ \E i \in 1 .. 2 : IsConstant(last.args[i]) /\ last.args[i].value # 0
    /\ \E i \in 1 .. 2 : IsVar(last.args[i]) /\ last.args[i].value # 0
    /\ IsVar(last.out)
    /\ NewLcs = 2

----------------------------------------------------------------------------
(* Properties of the bit decompositions *)

RECURSIVE BitSum(_, _)
\* the integer sum of bs[i] * 2^(i-1) over the first n bits
BitSum(bs, n) == IF n = 0 THEN 0 ELSE BitSum(bs, n - 1) + bs[n] * Pow2(n - 1)

\* the values of the bits returned by the last call
BitValues == [k \in 1 .. Len(last.bits) |-> last.bits[k].value]

\* C11: to_bits_le of any field element x, Constant or Var, succeeds and
\* returns exactly MODULUS_BIT_SIZE booleans whose values are 0 or 1, whose
\* linear-combination views evaluate to those values, and whose weighted sum
\* bit_i * 2^i over the integers is x; the constraint system stays satisfied.
C11_BitRoundTrip ==
    IsCall({"to_bits_le"}) =>
        /\ last.err = "ok"
        /\ Len(last.bits) = ModulusBitSize
        /\ \A k \in 1 .. Len(last.bits) :
              /\ last.bits[k].value \in {0, 1}
              /\ EvalLc(cs, cs.witness, last.bits[k].lc) = last.bits[k].value
              /\ last.bits[k].tag = IF IsConstant(Arg(1)) THEN "Constant" ELSE "Var"
        /\ BitSum(BitValues, Len(last.bits)) = Arg(1).value
        /\ IsSatisfied(cs)

\* to_bits_le has decomposed a Var whose value uses the top bit
C11_Witness ==
    /\ IsCall({"to_bits_le"})
    /\ IsVar(Arg(1))
    /\ Arg(1).value = P - 1
    /\ BitValues[1] # BitValues[ModulusBitSize]
    /\ BitSum(BitValues, Len(last.bits)) = P - 1

\* the witness assignment with the witnesses allocated by the last call replaced
\* by the values ws
WithNewWitnesses(ws) ==
    [k \in 1 .. Len(cs.witness) |->
        IF k > Len(last.pre.witness) THEN ws[k - Len(last.pre.witness)] ELSE cs.witness[k]]

\* C12: after to_bits_le of a Var with value x, every assignment of the
\* witnesses the call allocated that satisfies all its constraints represents
\* an integer strictly less than the modulus, and its bits are the canonical
\* bits of x: each bit has a constraint over that bit alone which every value
\* other than 0 and 1 violates, and among the 0/1 assignments of the bits, with
\* any field values for the auxiliary conjunction witnesses, only the
\* canonical one satisfies the system. The bits of a Constant are constants
\* representing x itself, with nothing to assign.
C12_Canonical ==
    IsCall({"to_bits_le"}) =>
        LET n == Len(last.bits)
            base == Len(last.pre.cons)
        IN IF IsVar(Arg(1))
           THEN /\ \A k \in 1 .. n :
                      /\ cs.cons[base + k] =
                             [a |-> LcDiff(One, Witness(last.aux[k])),
                              b |-> Lc1(Witness(last.aux[k])), c |-> <<>>]
                      /\ \A v \in Fp \ {0, 1} :
                            ~ConstraintHolds(cs, Reassign(<<last.aux[k]>>, <<v>>),
                                             cs.cons[base + k])
                /\ \A bs \in [1 .. n -> {0, 1}], as \in [1 .. (NewWitnesses - n) -> Fp] :
                      IsSatisfiedWith(cs, WithNewWitnesses(bs \o as)) =>
                          /\ BitSum(bs, n) < P
                          /\ bs = BitValues
           ELSE /\ NewWitnesses = 0
                /\ NewCons = 0
                /\ BitSum(BitValues, n) < P

\* to_bits_le has decomposed a Var x for which x + P also fits the bit length
C12_Witness ==
    /\ IsCall({"to_bits_le"})
    /\ IsVar(Arg(1))
    /\ Arg(1).value + P < Pow2(ModulusBitSize)
    /\ NewCons > ModulusBitSize + 1
    /\ IsSatisfied(cs)

\* the little-endian bits of the integer v
IntBits(v) == [k \in 1 .. ModulusBitSize |-> GetBit(v, k - 1)]

\* C13: to_non_unique_bits_le of a Var registers one witness and one
\* booleanity constraint per bit and one linear identity, nothing else; for
\* every value x with x + P below 2^MODULUS_BIT_SIZE, assigning the bits of the
\* integer x + P to the bit witnesses satisfies every constraint.
C13_NonCanonicalAccepted ==
    (IsCall({"to_non_unique_bits_le"}) /\ IsVar(Arg(1))) =>
        LET n == ModulusBitSize
            x == Arg(1).value
            base == Len(last.pre.cons)
        IN /\ last.err = "ok"
           /\ Len(last.bits) = n
           /\ NewWitnesses = n
           /\ NewCons = n + 1
           /\ NewLcs = 0
           /\ \A k \in 1 .. n :
                 cs.cons[base + k] =
                     [a |-> LcDiff(One, Witness(last.aux[k])),
                      b |-> Lc1(Witness(last.aux[k])), c |-> <<>>]
           /\ cs.cons[base + n + 1].a = <<>>
           /\ cs.cons[base + n + 1].b = <<>>
           /\ x + P < Pow2(n) =>
                 /\ BitSum(IntBits(x + P), n) >= P
                 /\ IsSatisfiedWith(cs, Reassign(last.aux, IntBits(x + P)))

\* to_non_unique_bits_le has decomposed a Var x and the bits of x + P, which
\* are not the bits of x, satisfy the constraint system
C13_Witness ==
    /\ IsCall({"to_non_unique_bits_le"})
    /\ IsVar(Arg(1))
    /\ Arg(1).value + P < Pow2(ModulusBitSize)
    /\ IntBits(Arg(1).value + P) # BitValues
    /\ IsSatisfiedWith(cs, Reassign(last.aux, IntBits(Arg(1).value + P)))

----------------------------------------------------------------------------
(* Properties of the pairing precomputation *)

RECURSIVE HammingWeight(_)
HammingWeight(n) == IF n = 0 THEN 0 ELSE (n % 2) + HammingWeight(n \div 2)

\* the loop parameter and the twist type of the last call
CallX == last.args2[1]
CallTwist == last.args2[2]

NotInfinityHolds ==
    /\ last.aux.not_infinity \in (Len(last.pre.cons) + 1) .. Len(cs.cons)
    /\ ConstraintHolds(cs, cs.witness, cs.cons[last.aux.not_infinity])

----------------------------------------------------------------------------
(* Properties of the conditional assertions *)

\* the selector of the last call
Selector == last.args2[1]

\* C16 as stated: conditional_enforce_equal(self, other, selector) succeeds;
\* with a true selector the constraint system is satisfied exactly when
\* self = other, with a false selector it is satisfied whatever the values;
\* on two variables it registers the single constraint
\* (self - other) * selector = 0. For every Constant/Var combination.
C16_AsStated ==
    IsCall({"conditional_enforce_equal"}) =>
        /\ last.err = "ok"
        /\ Selector.value = 1 => (IsSatisfied(cs) <=> Arg(1).value = Arg(2).value)
        /\ Selector.value = 0 => IsSatisfied(cs)
        /\ (IsVar(Arg(1)) /\ IsVar(Arg(2))) =>
              /\ NewCons = 1
              /\ NewWitnesses = 0
              /\ cs.cons[Len(cs.cons)] =
                     [a |-> LcDiff(Arg(1).variable, Arg(2).variable),
                      b |-> Selector.lc, c |-> <<>>]

\* C16 where at least one operand is a Var: the statement holds
C16_WithVariable ==
    (IsCall({"conditional_enforce_equal"}) /\ (IsVar(Arg(1)) \/ IsVar(Arg(2)))) =>
        /\ last.err = "ok"
        /\ NewCons = 1
        /\ Selector.value = 1 => (IsSatisfied(cs) <=> Arg(1).value = Arg(2).value)
        /\ Selector.value = 0 => IsSatisfied(cs)

\* conditional_enforce_equal on two unequal constants with a true selector has
\* returned Ok and registered nothing
C16_Witness ==
    /\ IsCall({"conditional_enforce_equal"})
    /\ IsConstant(Arg(1)) /\ IsConstant(Arg(2))
    /\ Arg(1).value # Arg(2).value
    /\ Selector.value = 1
    /\ last.err = "ok"
    /\ NewCons = 0
    /\ IsSatisfied(cs)

\* some value of the multiplier witness of the last call satisfies the
\* constraint system (the system as it is when no multiplier was allocated)
SatisfiableByMultiplier ==
    IF last.aux = <<>> THEN IsSatisfied(cs)
    ELSE \E m \in Fp : IsSatisfiedWith(cs, Reassign(last.aux, <<m>>))

\* the multiplier witness of the last call times the difference of the operands
MultiplierTimesDifference ==
    FMul(cs.witness[last.aux[1]], FSub(Arg(1).value, Arg(2).value))

\* C17 as stated: conditional_enforce_not_equal(self, other, selector)
\* succeeds; with a true selector the constraint system is satisfiable exactly
\* when self # other, and then the multiplier the gadget assigned is the
\* inverse of the difference (up to the order of the operands) and satisfies
\* it; with a false selector the multiplier witness is 0 and the system is
\* satisfied whatever the values. For every Constant/Var combination.
C17_AsStated ==
    IsCall({"conditional_enforce_not_equal"}) =>
        /\ last.err = "ok"
        /\ Selector.value = 1 =>
              /\ SatisfiableByMultiplier <=> Arg(1).value # Arg(2).value
              /\ Arg(1).value # Arg(2).value => IsSatisfied(cs)
              /\ (Arg(1).value # Arg(2).value /\ last.aux # <<>>) =>
                    MultiplierTimesDifference \in {1, FNeg(1)}
        /\ Selector.value = 0 =>
              /\ IsSatisfied(cs)
              /\ last.aux # <<>> => cs.witness[last.aux[1]] = 0

\* C17 where at least one operand is a Var: the statement holds, at the cost
\* of one witness and one constraint
C17_WithVariable ==
    (IsCall({"conditional_enforce_not_equal"}) /\ (IsVar(Arg(1)) \/ IsVar(Arg(2)))) =>
        /\ last.err = "ok"
        /\ NewCons = 1
        /\ NewWitnesses = 1
        /\ Selector.value = 1 =>
              /\ SatisfiableByMultiplier <=> Arg(1).value # Arg(2).value
              /\ Arg(1).value # Arg(2).value => IsSatisfied(cs)
        /\ Selector.value = 0 =>
              /\ IsSatisfied(cs)
              /\ cs.witness[last.aux[1]] = 0

\* conditional_enforce_not_equal on two equal constants with a true selector
\* has returned Ok and registered nothing
C17_Witness ==
    /\ IsCall({"conditional_enforce_not_equal"})
    /\ IsConstant(Arg(1)) /\ IsConstant(Arg(2))
    /\ Arg(1).value = Arg(2).value
    /\ Selector.value = 1
    /\ last.err = "ok"
    /\ NewCons = 0
    /\ NewWitnesses = 0
    /\ IsSatisfied(cs)

----------------------------------------------------------------------------
(* Properties of the multiplication and squaring assertions *)

\* the relation the last call asserts holds between the values of its operands
RelationHolds ==
    IF last.op = "mul_equals" THEN FMul(Arg(1).value, Arg(2).value) = Arg(3).value
    ELSE FMul(Arg(1).value, Arg(1).value) = Arg(2).value

\* C18 as stated: for every Constant/Var combination of the operands of
\* mul_equals and square_equals, when the values violate the relation the call
\* returns an error or leaves the constraint system unsatisfied, and when they
\* satisfy it the call succeeds and the system stays satisfied.
C18_AsStated ==
    IsCall({"mul_equals", "square_equals"}) =>
        /\ ~RelationHolds => (last.err # "ok" \/ ~IsSatisfied(cs))
        /\ RelationHolds => (last.err = "ok" /\ IsSatisfied(cs))

\* C18 where at least one operand is a Var: the statement holds
C18_WithVariable ==
    (IsCall({"mul_equals", "square_equals"})
        /\ \E i \in 1 .. Len(last.args) : IsVar(Arg(i))) =>
        /\ last.err = "ok"
        /\ NewCons = 1
        /\ IsSatisfied(cs) <=> RelationHolds

\* mul_equals on three constants that violate the relation has returned Ok
\* and registered nothing
C18_Witness ==
    /\ IsCall({"mul_equals"})
    /\ \A i \in 1 .. 3 : IsConstant(Arg(i))
    /\ ~RelationHolds
    /\ last.err = "ok"
    /\ NewCons = 0
    /\ IsSatisfied(cs)

----------------------------------------------------------------------------
(* Properties of the conditional selection and the table lookups *)

SelectOps == {"conditionally_select", "two_bit_lookup", "three_bit_cond_neg_lookup"}

\* the bits and the table of the last lookup
LookupBits == last.args2[1]
LookupTable == last.args2[2]

\* every boolean operand of the last call is a constant
SelectorsConstant ==
    CASE last.op = "conditionally_select" -> Selector.tag = "Constant"
      [] last.op = "two_bit_lookup" -> AllBoolConstant(LookupBits)
      [] OTHER -> AllBoolConstant(LookupBits) /\ last.args2[3].tag = "Constant"

\* the value the last call has to return
Selected ==
    CASE last.op = "conditionally_select" ->
            IF Selector.value = 1 THEN Arg(1).value ELSE Arg(2).value
      [] last.op = "two_bit_lookup" -> TableEntry(LookupBits, LookupTable)
      [] OTHER -> CondNegEntry(LookupBits, LookupTable)

\* C19 as stated: conditionally_select, two_bit_lookup and
\* three_bit_cond_neg_lookup each register exactly one constraint per call,
\* whatever the table and whichever operands are constants, and the table
\* entries allocate no variable.
C19_AsStated ==
    IsCall(SelectOps) =>
        /\ last.err = "ok"
        /\ NewCons = 1
        /\ last.op # "conditionally_select" => (NewLcs = 0 /\ NewInstances = 0)

\* C19: each of the three gadgets returns the selected value and keeps the
\* constraint system satisfied; it registers no constraint and no witness when
\* every boolean operand is a constant, none either when conditionally_select
\* chooses between two constants, and otherwise exactly one constraint and one
\* witness (the result); the lookups never register a linear combination or
\* an instance variable for a table entry.
C19_SelectCost ==
    IsCall(SelectOps) =>
        LET folded == \/ SelectorsConstant
                      \/ /\ last.op = "conditionally_select"
                         /\ IsConstant(Arg(1)) /\ IsConstant(Arg(2))
        IN /\ last.err = "ok"
           /\ last.out.value = Selected
           /\ IsSatisfied(cs)
           /\ NewCons = IF folded THEN 0 ELSE 1
           /\ NewWitnesses = IF folded THEN 0 ELSE 1
           /\ NewInstances = 0
           /\ last.op # "conditionally_select" =>
                 /\ NewLcs = 0
                 /\ last.out.tag = IF folded THEN "Constant" ELSE "Var"

\* a two-bit lookup with two variable bits into a table of four different
\* entries has cost one constraint
C19_Witness ==
    /\ IsCall({"two_bit_lookup"})
    /\ \A i \in 1 .. 2 : LookupBits[i].tag = "Var" /\ LookupBits[i].value = 1
    /\ \A i \in 1 .. 4 : \A j \in 1 .. 4 : i # j => LookupTable[i] # LookupTable[j]
    /\ NewCons = 1
    /\ last.out.value = LookupTable[4]

----------------------------------------------------------------------------
(* Witness absence *)

LinearOps == {"add", "sub", "add_many", "linear_combination", "inner_product"}

\* the field-element operands of the last call
Inputs == IF last.op = "inner_product" THEN last.args \o last.args2 ELSE last.args
AllPresent == \A i \in 1 .. Len(Inputs) : Known(Inputs[i].value)

\* the field value the last call computes from the values of its operands
Computed ==
    CASE last.op = "add" -> FAdd(Arg(1).value, Arg(2).value)
      [] last.op = "sub" -> FSub(Arg(1).value, Arg(2).value)
      [] last.op = "add_many" -> IntSum(ValuesOf(last.args), Len(last.args)) % P
      [] last.op = "linear_combination" ->
            IntDot(last.args2, ValuesOf(last.args), Len(last.args)) % P
      [] OTHER -> IntDot(ValuesOf(last.args), ValuesOf(last.args2), Len(last.args)) % P

\* the constraint system before the last call, in proving mode with the
\* witnesses w and the instance values x
FillCs(w, x) == [last.pre EXCEPT !.mode = "prove", !.witness = w, !.instance = x]

\* an operand with its absent witness taken from w or x
FillVar(v, w, x) ==
    IF IsVar(v) /\ ~Known(v.value)
    THEN [v EXCEPT !.value = IF v.variable.kind = "Witness" THEN w[v.variable.index]
                             ELSE x[v.variable.index]]
    ELSE v
FillSeq(vs, w, x) == [i \in 1 .. Len(vs) |-> FillVar(vs[i], w, x)]

\* the last call made again, in proving mode, on operands with witnesses
WithWitnesses(w, x) ==
    LET c == FillCs(w, x)
        a == FillSeq(last.args, w, x)
    IN CASE last.op = "add" -> FpAdd(c, a[1], a[2])
         [] last.op = "sub" -> FpSub(c, a[1], a[2])
         [] last.op = "add_many" -> AllocAddMany(c, a)
         [] last.op = "linear_combination" -> AllocLinearCombination(c, last.args2, a)
         [] OTHER -> FpInnerProduct(c, a, FillSeq(last.args2, w, x))

\* the call with witnesses registers what the last call registered and
\* returns the same variable, with a witness
SameRegistrations(r) ==
    /\ r.err = "ok"
    /\ r.cs.lcs = cs.lcs
    /\ r.cs.cons = cs.cons
    /\ Len(r.cs.witness) = Len(cs.witness)
    /\ Len(r.cs.instance) = Len(cs.instance)
    /\ r.out.tag = last.out.tag
    /\ r.out.variable = last.out.variable
    /\ r.out # NoFp => Known(r.out.value)

\* C20: add, sub, add_many, linear_combination and inner_product complete
\* whether or not the witnesses are assigned; the witness of the value they
\* return is present exactly when every operand has one, and then it is the
\* computed field value; reading an absent one gives the missing-witness
\* error; and a call on operands without witnesses registers the same linear
\* combinations and constraints, and allocates as many variables, as the call
\* on the same operands with any witnesses.
C20_WitnessAbsence ==
    IsCall(LinearOps) =>
        /\ last.err = "ok"
        /\ last.out # NoFp =>
              /\ Known(last.out.value) <=> AllPresent
              /\ AllPresent => (last.out.value = Computed /\ FpValue(last.out).err = "ok")
              /\ ~AllPresent => FpValue(last.out).err = "AssignmentMissing"
        /\ cs.mode = "setup" =>
              \A w \in [1 .. Len(last.pre.witness) -> Fp],
                 x \in [1 .. Len(last.pre.instance) -> Fp] :
                 SameRegistrations(WithWitnesses(w, x))

\* an inner product of variables has been computed without witnesses: it
\* registered a multiplication constraint and returned a value without witness
C20_Witness ==
    /\ IsCall({"inner_product"})
    /\ cs.mode = "setup"
    /\ ~AllPresent
    /\ last.err = "ok"
    /\ NewCons > 0
    /\ last.out.tag = "Var"
    /\ FpValue(last.out).err = "AssignmentMissing"

----------------------------------------------------------------------------
(* Properties of the batched operations on sequences of unequal length *)

ShapeOps == {"linear_combination", "alloc_inner_product", "inner_product"}
ShapeMismatch == IsCall(ShapeOps) /\ Len(last.args) # Len(last.args2)
ShorterLen ==
    IF Len(last.args) < Len(last.args2) THEN Len(last.args) ELSE Len(last.args2)

\* C21 as stated: every batched operation given two sequences of unequal
\* length aborts.
C21_AsStated == ShapeMismatch => last.err = "panic"

\* C21: given two sequences of unequal length, AllocatedFp::linear_combination
\* aborts before it registers anything, AllocatedFp::inner_product aborts after
\* it has registered the multiplication gate of every pair it could form, and
\* FpVar::inner_product returns the error value Unsatisfiable to its caller
\* and registers nothing; on sequences of equal length none of them fails.
C21_ShapeMismatch ==
    IsCall(ShapeOps) =>
        /\ ~ShapeMismatch => last.err = "ok"
        /\ (ShapeMismatch /\ last.op = "linear_combination") =>
              (last.err = "panic" /\ cs = last.pre /\ last.out = NoFp)
        /\ (ShapeMismatch /\ last.op = "alloc_inner_product") =>
              /\ last.err = "panic"
              /\ last.out = NoFp
              /\ NewCons = ShorterLen /\ NewWitnesses = ShorterLen /\ NewLcs = 0
              /\ SubSeq(cs.cons, 1, Len(last.pre.cons)) = last.pre.cons
        /\ (ShapeMismatch /\ last.op = "inner_product") =>
              (last.err = "Unsatisfiable" /\ cs = last.pre /\ last.out = NoFp)

\* AllocatedFp::inner_product has aborted on unequal lengths after it
\* registered a multiplication gate
C21_Witness ==
    /\ ShapeMismatch
    /\ last.op = "alloc_inner_product"
    /\ last.err = "panic"
    /\ NewCons > 0

----------------------------------------------------------------------------
(* Immutability of values and of the registered constraint system *)

IsPrefix(s, t) == Len(s) <= Len(t) /\ SubSeq(t, 1, Len(s)) = s

InPlaceOps == {"negate_in_place", "frobenius_map_in_place"}

\* one step of the circuit removes and alters nothing that is registered and
\* rebinds no value but the receiver of an in-place operation
StepKeeps ==
    /\ cs'.mode = cs.mode
    /\ IsPrefix(cs.instance, cs'.instance)
    /\ IsPrefix(cs.witness, cs'.witness)
    /\ IsPrefix(cs.lcs, cs'.lcs)
    /\ IsPrefix(cs.cons, cs'.cons)
    /\ Len(vals') >= Len(vals)
    /\ \A i \in 1 .. Len(vals) :
          vals'[i] # vals[i] => (last'.op \in InPlaceOps /\ last'.args2 = <<i>>)
    /\ last'.err # "ok" => (vals' = vals /\ cs' = cs)

\* C22: over any sequence of allocations and gadget calls on one constraint
\* system, successful or failing, every step keeps the variables, linear
\* combinations and constraints registered before it as they were and keeps
\* every value held before it, except the receiver of negate_in_place or
\* frobenius_map_in_place; negate() leaves its operand as it was.
C22_AppendOnly == [][StepKeeps]_vars

\* negate_in_place has rebound a variable to a new linear combination after a
\* constraint was enforced and while another value is held
C22_Witness ==
    /\ last.op = "negate_in_place"
    /\ IsVar(last.args[1])
    /\ vals[last.args2[1]] # last.args[1]
    /\ Len(last.pre.cons) > 0
    /\ Len(vals) > 1
    /\ cs # last.pre

----------------------------------------------------------------------------
(* Properties of the decomposition into a given number of low bits *)

TopBitsCall == IsCall({"to_bits_le_with_top_bits_zero"})
Size == last.args2[1]
Fits == Arg(1).value < Pow2(Size)

\* no assignment of the bit witnesses of the last call satisfies the system
NoBitsSatisfy ==
    \A ws \in [1 .. NewWitnesses -> Fp] : ~IsSatisfiedWith(cs, WithNewWitnesses(ws))

\* C23 as stated: for a Constant and for a Var receiver and size below the
\* modulus bit length the call returns size bits and rest == 0, and when the
\* value does not fit in size bits it does not succeed with a satisfiable
\* constraint system.
C23_AsStated ==
    (TopBitsCall /\ Size < ModulusBitSize) =>
        /\ last.err = "ok"
        /\ Len(last.bits) = Size
        /\ Fits => (last.out.value = 0 /\ BitSum(BitValues, Size) = Arg(1).value
                    /\ IsSatisfied(cs))
        /\ ~Fits => NoBitsSatisfy

\* C23 for a Var receiver: the call returns size bit witnesses; when the value
\* fits in size bits the bits are its low bits, rest is 0 and the system is
\* satisfied; when it does not, no assignment of the bit witnesses satisfies
\* the system. For a Constant receiver that fits, the bits and rest == 0 are
\* constants and nothing is registered; for one that does not fit the call
\* succeeds, registers nothing and returns a non-zero rest. A size that is not
\* below the modulus bit length aborts.
C23_VarReceiver ==
    TopBitsCall =>
        /\ Size >= ModulusBitSize => (last.err = "panic" /\ cs = last.pre)
        /\ (Size < ModulusBitSize /\ IsVar(Arg(1))) =>
              /\ last.err = "ok"
              /\ Len(last.bits) = Size
              /\ NewWitnesses = Size
              /\ \A k \in 1 .. Size : last.bits[k].tag = "Var"
              /\ BitSum(BitValues, Size) = Arg(1).value % Pow2(Size)
              /\ Fits => (last.out.value = 0 /\ IsSatisfied(cs))
              /\ ~Fits => NoBitsSatisfy
        /\ (Size < ModulusBitSize /\ IsConstant(Arg(1))) =>
              /\ last.err = "ok"
              /\ cs = last.pre
              /\ Len(last.bits) = Size
              /\ \A k \in 1 .. Size : last.bits[k].tag = "Constant"
              /\ BitSum(BitValues, Size) = Arg(1).value % Pow2(Size)
              /\ last.out = Constant(Arg(1).value - BitSum(BitValues, Size))

\* the call on a Constant whose value does not fit in size bits has succeeded
\* on a satisfied constraint system with a non-zero rest
C23_Witness ==
    /\ TopBitsCall
    /\ Size < ModulusBitSize
    /\ IsConstant(Arg(1))
    /\ ~Fits
    /\ last.err = "ok"
    /\ IsSatisfied(cs)
    /\ last.out.value # 0

----------------------------------------------------------------------------
(* Properties of AllocatedFp::inner_product *)

AllocIpCall == IsCall({"alloc_inner_product"})
Pairs == 1 .. Len(last.args)
NoCs(x) == x.cs = "None"
BothConstant == {i \in Pairs : NoCs(last.args[i]) /\ NoCs(last.args2[i])}
BothVariable == {i \in Pairs : ~NoCs(last.args[i]) /\ ~NoCs(last.args2[i])}

\* the variable of the product of pair i: the witnesses of the products are
\* allocated in the order of the pairs
ProductVariable(i) ==
    Witness(Len(last.pre.witness) + Cardinality({j \in BothVariable : j <= i}))

\* the one term the pair i is to contribute
PairTerm(i) ==
    LET v1 == last.args[i]
        v2 == last.args2[i]
    IN IF i \in BothConstant THEN <<FMul(v1.value, v2.value), One>>
       ELSE IF NoCs(v1) THEN <<v1.value, v2.variable>>
       ELSE IF NoCs(v2) THEN <<v2.value, v1.variable>>
       ELSE <<1, ProductVariable(i)>>

RECURSIVE TermsFrom(_, _)
\* the terms of the pairs i .. n in order; extra = TRUE adds, after the term of
\* a pair of two constants, the term (v1, v2.variable)
TermsFrom(i, extra) ==
    IF i > Len(last.args) THEN <<>>
    ELSE << PairTerm(i) >>
         \o (IF extra /\ i \in BothConstant
             THEN << <<last.args[i].value, last.args2[i].variable>> >> ELSE <<>>)
         \o TermsFrom(i + 1, extra)

InnerProductValue == IntDot(ValuesOf(last.args), ValuesOf(last.args2), Len(last.args)) % P

\* C24 as stated: the single linear combination the call registers is made
\* of exactly one term per pair, (v1*v2, One), (constant, other's variable) or
\* (1, product variable) with one multiplication gate, and evaluates to the
\* sum of v1_i * v2_i.
C24_AsStated ==
    (AllocIpCall /\ last.err = "ok" /\ last.out # NoFp) =>
        /\ NewLcs = 1
        /\ cs.lcs[Len(cs.lcs)] = Compactify(TermsFrom(1, FALSE))
        /\ NewCons = Cardinality(BothVariable)
        /\ OutEval = InnerProductValue
        /\ last.out.value = InnerProductValue

\* C24 with the terms the code pushes: one term per pair, and for a pair of
\* two constants the term (v1, v2.variable) in addition, so that the
\* combination evaluates to the sum of v1_i * v2_i plus v1_i * v2_i.variable
\* over the pairs of two constants, while the value of the result is the sum
\* of v1_i * v2_i; the statement holds for calls without a pair of two
\* constants; a call on pairs of constants only aborts.
C24_TermsPushed ==
    AllocIpCall =>
        /\ (last.err = "ok" /\ last.out # NoFp) =>
              /\ NewLcs = 1
              /\ cs.lcs[Len(cs.lcs)] = Compactify(TermsFrom(1, TRUE))
              /\ NewCons = Cardinality(BothVariable)
              /\ NewWitnesses = Cardinality(BothVariable)
              /\ last.out.value = InnerProductValue
              /\ OutEval = EvalLc(cs, cs.witness, TermsFrom(1, TRUE))
              /\ BothConstant = {} => OutEval = InnerProductValue
        /\ (Pairs # {} /\ BothConstant = Pairs) => last.err = "panic"
        /\ Pairs = {} => (last.err = "ok" /\ last.out = NoFp /\ cs = last.pre)

\* a call with a pair of two constants has returned a combination that does
\* not evaluate to the inner product
C24_Witness ==
    /\ AllocIpCall
    /\ last.err = "ok"
    /\ last.out # NoFp
    /\ BothConstant # {}
    /\ OutEval # InnerProductValue
    /\ last.out.value = InnerProductValue

\* ---------------------------------------------------------------------------
\* Order of the pairing steps
\* ---------------------------------------------------------------------------

\* a from_group_var call
PairingCall == IsCall({"from_group_var"})

\* the steps recorded by the last call, and each one's kind and bit position
Steps == last.aux.steps
StepKinds == [j \in 1 .. Len(Steps) |-> <<Steps[j].kind, Steps[j].bit>>]

RECURSIVE ExpectedSteps(_, _)
\* the steps of a scan of bits from position k on, most significant first: a
\* double for every position, followed by an add where the bit is set
ExpectedSteps(bits, k) ==
    IF k > Len(bits) THEN <<>>
    ELSE (IF bits[k] = 1 THEN <<(<<"double", k>>), (<<"add", k>>)>> ELSE <<(<<"double", k>>)>>)
         \o ExpectedSteps(bits, k + 1)

\* C25: from_group_var scans the bits of the loop parameter most significant
\* first, the first bit of the iterator skipped; every scanned bit appends
\* the pair of a double step and, only where the bit is set, the pair of an add
\* step right after it, so an add is always preceded by the double of the same
\* bit, and the pairs are in scan order, one per step; a scan that returns an
\* error returns no pair.
C25_ScanOrder ==
    /\ PairingCall /\ last.err # "ok" => last.ell_coeffs = <<>>
    /\ PairingCall /\ last.err = "ok" =>
        /\ StepKinds = ExpectedSteps(BitIteratorBE(CallX), 2)
        /\ Len(last.ell_coeffs) = Len(Steps)
        /\ Len(Steps) >= 1 => Steps[1].kind = "double"
        /\ \A j \in 1 .. Len(Steps) :
              /\ Steps[j].kind = "add" =>
                    /\ j > 1
                    /\ Steps[j - 1].kind = "double"
                    /\ Steps[j - 1].bit = Steps[j].bit
                    /\ BitIteratorBE(CallX)[Steps[j].bit] = 1
              /\ Steps[j].kind = "double" /\ BitIteratorBE(CallX)[Steps[j].bit] = 1 =>
                    /\ j < Len(Steps)
                    /\ Steps[j + 1].kind = "add"
              /\ j > 1 => Steps[j - 1].bit <= Steps[j].bit
              /\ Steps[j].bit \in 2 .. LimbBits

\* a scan with a set bit and a clear bit after the skipped one
C25_Witness ==
    /\ PairingCall
    /\ last.err = "ok"
    /\ \E j \in 1 .. Len(Steps) : Steps[j].kind = "add"
    /\ \E k \in 2 .. LimbBits : BitIteratorBE(CallX)[k] = 0
    /\ Len(last.ell_coeffs) >= 3

\* ---------------------------------------------------------------------------
\* The twist type of the pairing steps
\* ---------------------------------------------------------------------------

\* the affine law of one step on field values: the slope c, the accumulator
\* the step leaves, the coefficient next to -c, and whether the denominator
\* of the slope is zero
RefStep(kind, r, q) ==
    LET den == IF kind = "double" THEN FAdd(r[2], r[2]) ELSE FSub(q[1], r[1])
        num == IF kind = "double" THEN FMul(3 % P, FMul(r[1], r[1])) ELSE FSub(q[2], r[2])
        c == FMul(num, UnwrapOrZero(FInverse(den)))
        x3 == IF kind = "double" THEN FSub(FMul(c, c), FAdd(r[1], r[1]))
              ELSE FSub(FSub(FMul(c, c), r[1]), q[1])
        y3 == FSub(FMul(c, FSub(r[1], x3)), r[2])
    IN [bad |-> den = 0, c |-> c, r |-> <<x3, y3>>,
        e |-> FSub(FMul(c, r[1]), r[2]), f |-> FNeg(c)]

RECURSIVE RefScan(_, _, _, _)
\* the law applied along the steps of a scan, up to the first zero denominator
RefScan(r, q, kinds, j) ==
    IF j > Len(kinds) THEN <<>>
    ELSE IF RefStep(kinds[j][1], r, q).bad THEN <<RefStep(kinds[j][1], r, q)>>
    ELSE <<RefStep(kinds[j][1], r, q)>> \o RefScan(RefStep(kinds[j][1], r, q).r, q, kinds, j + 1)

\* the values of the coordinates of the point of the last call
PointValues == <<Arg(1).x.value, Arg(1).y.value>>

\* the law along the steps the last call has to take
Reference == RefScan(PointValues, PointValues, ExpectedSteps(BitIteratorBE(CallX), 2), 1)

\* some step of the scan meets a zero denominator
ZeroDenominator == Len(Reference) > 0 /\ Reference[Len(Reference)].bad

\* the other twist type, and the last call made again with it
OtherTwist == IF CallTwist = "M" THEN "D" ELSE "M"
OtherCall == G2FromGroupVar(last.pre, Arg(1), CallX, OtherTwist)

\* the pair with its two components exchanged
Swapped(pair) == <<pair[2], pair[1]>>

\* the component of a pair that holds the negated slope of the step ref
NegatedSlopeAt(pair, ref, pos) ==
    /\ pair[pos].value = ref.f
    /\ pair[3 - pos].value = ref.e

\* C26: the same call under the other twist type returns, step for step, the
\* same pair with its two components exchanged, leaves the same accumulator
\* after every step and the same constraint system; twist type M has the
\* negated slope second and twist type D has it first.
C26_TwistSwap ==
    PairingCall =>
        LET o == OtherCall
            ref == Reference
            pos == IF CallTwist = "M" THEN 2 ELSE 1
        IN /\ o.err = last.err
           /\ o.cs = cs
           /\ o.aux.steps = Steps
           /\ o.ell_coeffs = [j \in 1 .. Len(last.ell_coeffs) |-> Swapped(last.ell_coeffs[j])]
           /\ ~ref[Len(ref)].bad =>
                 \A j \in 1 .. Len(last.ell_coeffs) :
                    NegatedSlopeAt(last.ell_coeffs[j], ref[j], pos)

\* a scan of twist type D with a double and an add step whose pairs have two
\* different components and whose accumulator moves
C26_Witness ==
    /\ PairingCall
    /\ last.err = "ok"
    /\ CallTwist = "D"
    /\ ~ZeroDenominator
    /\ \E j \in 1 .. Len(Steps) :
          /\ Steps[j].kind = "add"
          /\ last.ell_coeffs[j][1] # last.ell_coeffs[j][2]
          /\ last.ell_coeffs[j - 1][1] # last.ell_coeffs[j - 1][2]
          /\ last.ell_coeffs[j][1].value # last.ell_coeffs[j][2].value
          /\ Steps[j].r # Steps[j - 1].r

\* ---------------------------------------------------------------------------
\* The affine law of the pairing steps
\* ---------------------------------------------------------------------------

\* the point of the last call has allocated coordinates
VarPoint == Arg(1).x.tag = "Var" /\ Arg(1).y.tag = "Var"

\* the constraints the last call has registered for an inversion: a * b = 1
\* other than the assertion on the infinity flag
InverseGates ==
    {i \in (Len(last.pre.cons) + 1) .. Len(cs.cons) :
        /\ i # last.aux.not_infinity
        /\ cs.cons[i].c = Lc1(One)}

\* an inversion of zero among them: no value of the inverse satisfies it
ZeroInverted ==
    \E i \in InverseGates :
       /\ EvalLc(cs, cs.witness, cs.cons[i].a) = 0
       /\ ~ConstraintHolds(cs, cs.witness, cs.cons[i])

\* the accumulator and the pair of step j follow the affine law ref
FollowsLaw(step, pair, ref) ==
    /\ step.r[1].value = ref.r[1]
    /\ step.r[2].value = ref.r[2]
    /\ NegatedSlopeAt(pair, ref, IF CallTwist = "M" THEN 2 ELSE 1)

EqualsCall == IsCall({"mul_equals", "square_equals"})

\* the cases where the call registers a multiplication gate that needs a
\* Constant operand as a variable, and that operand
Materializes ==
    IF last.op = "mul_equals" THEN IsVar(Arg(1)) /\ IsVar(Arg(2)) /\ IsConstant(Arg(3))
    ELSE IsConstant(Arg(1)) # IsConstant(Arg(2))
Materialized ==
    IF last.op = "mul_equals" THEN Arg(3)
    ELSE IF IsConstant(Arg(1)) THEN Arg(1) ELSE Arg(2)

\* the last call has registered exactly one linear combination, f * One,
\* and a gate that refers to it
PinnedOnOne(f) ==
    /\ NewLcs = 1
    /\ cs.lcs[Len(cs.lcs)] = << <<f, One>> >>
    /\ NewCons = 1
    /\ \E side \in {"a", "b", "c"} :
          cs.cons[Len(cs.cons)][side] = Lc1(SymbolicLc(Len(cs.lcs)))

\* the last call has allocated exactly one witness, of value f, and a gate
\* that refers to it
FreeWitness(f) ==
    /\ NewWitnesses = 1
    /\ cs.witness[Len(cs.witness)] = f
    /\ NewCons = 1
    /\ \E side \in {"a", "b", "c"} :
          cs.cons[Len(cs.cons)][side] = Lc1(Witness(Len(cs.witness)))

\* C27 as stated: mul_equals and square_equals materialize a Constant operand
\* as a linear combination on Variable::One with the value of the constant,
\* never as a witness, and allocate no variable where the multiplication is
\* free.
C27_AsStated ==
    EqualsCall =>
        /\ NewWitnesses = 0
        /\ NewInstances = 0
        /\ Materializes => PinnedOnOne(Materialized.value)

\* C27 as the code has it: mul_equals pins the Constant result on
\* Variable::One; square_equals allocates the Constant operand as a witness,
\* and the gate it registers holds for whatever square the prover assigns to
\* that witness; no other path allocates a variable.
C27_Materialization ==
    EqualsCall =>
        /\ last.err = "ok"
        /\ NewInstances = 0
        /\ ~Materializes => NewWitnesses = 0
        /\ Materializes /\ last.op = "mul_equals" =>
              /\ NewWitnesses = 0
              /\ PinnedOnOne(Materialized.value)
        /\ Materializes /\ last.op = "square_equals" =>
              /\ NewLcs = 0
              /\ FreeWitness(Materialized.value)
              /\ last.aux = <<Len(cs.witness)>>
              /\ IsConstant(Arg(2)) =>
                    \A w \in Fp : IsSatisfiedWith(cs, Reassign(last.aux, <<w>>))
                                     <=> FMul(Arg(1).value, Arg(1).value) = w
              /\ IsConstant(Arg(1)) =>
                    \A w \in Fp : IsSatisfiedWith(cs, Reassign(last.aux, <<w>>))
                                     <=> FMul(w, w) = Arg(2).value

\* square_equals of a variable against a Constant that is not its square:
\* the constant is a witness, and assigning the square to it satisfies the
\* constraint system
C27_Witness ==
    /\ IsCall({"square_equals"})
    /\ IsVar(Arg(1))
    /\ IsConstant(Arg(2))
    /\ ~RelationHolds
    /\ NewWitnesses = 1
    /\ NewLcs = 0
    /\ ~IsSatisfied(cs)
    /\ IsSatisfiedWith(cs, Reassign(last.aux, <<FMul(Arg(1).value, Arg(1).value)>>))

\* ---------------------------------------------------------------------------
\* The two-bit lookup
\* ---------------------------------------------------------------------------

\* the values of the two selector bits and the four table entries c0 .. c3
Lsb == LookupBits[1].value
Msb == LookupBits[2].value
T0 == LookupTable[1]
T1 == LookupTable[2]
T2 == LookupTable[3]
T3 == LookupTable[4]

\* the two sides of (b1*(c3-c2-c1+c0) + (c1-c0)) * b0 = result - c0 + b1*(c0-c2)
LookupLhs ==
    FMul(FAdd(FMul(Msb, FAdd(FSub(FSub(T3, T2), T1), T0)), FSub(T1, T0)), Lsb)
LookupRhs(result) ==
    FAdd(FSub(result, T0), FMul(Msb, FSub(T0, T2)))

\* the witness assignment with the result of the lookup replaced by w
WithResult(w) == Reassign(<<last.out.variable.index>>, <<w>>)

\* C28: two_bit_lookup returns the table entry c[b0 + 2*b1]; with a variable
\* selector bit the result is a new witness and the one constraint registered
\* is (b1*(c3-c2-c1+c0) + (c1-c0)) * b0 = result - c0 + b1*(c0-c2), which a
\* value of the result satisfies if and only if it is c[b0 + 2*b1]; with
\* constant selector bits the result is that entry as a Constant.
C28_TwoBitLookup ==
    IsCall({"two_bit_lookup"}) =>
        /\ last.err = "ok"
        /\ last.out.value = LookupTable[Lsb + 2 * Msb + 1]
        /\ AllBoolConstant(LookupBits) =>
              /\ last.out = Constant(LookupTable[Lsb + 2 * Msb + 1])
              /\ cs = last.pre
        /\ ~AllBoolConstant(LookupBits) =>
              /\ IsVar(last.out)
              /\ last.out.variable = Witness(Len(cs.witness))
              /\ NewCons = 1
              /\ \A w \in Fp :
                    LET k == cs.cons[Len(cs.cons)]
                        a == WithResult(w)
                    IN /\ FMul(EvalLc(cs, a, k.a), EvalLc(cs, a, k.b)) = LookupLhs
                       /\ EvalLc(cs, a, k.c) = LookupRhs(w)
                       /\ (LookupLhs = LookupRhs(w)) <=> (w = LookupTable[Lsb + 2 * Msb + 1])
                       /\ IsSatisfiedWith(cs, a) <=> (w = LookupTable[Lsb + 2 * Msb + 1])

\* a lookup with variable bits b0 = 0, b1 = 1 into a table of four different
\* entries returns c[2]
C28_Witness ==
    /\ IsCall({"two_bit_lookup"})
    /\ \A i \in 1 .. 2 : LookupBits[i].tag = "Var"
    /\ Lsb = 0 /\ Msb = 1
    /\ \A i \in 1 .. 4 : \A j \in 1 .. 4 : i # j => LookupTable[i] # LookupTable[j]
    /\ last.out.value = T2
    /\ IsSatisfied(cs)
    /\ ~IsSatisfiedWith(cs, WithResult(T1))

====
